---------------------------- MODULE Spec2Model ----------------------------
(***************************************************************************)
(* A model of the PLC instrument simulator: the simulation engine          *)
(* (backend/simulation_engine.py), the instrument kernel                   *)
(* (backend/simulators/base.py), the instrument variants and the mock      *)
(* hardware layer (backend/hardware).                                      *)
(*                                                                         *)
(* Numbers.  The source computes in floating point; the model computes in  *)
(* fixed point, and the configurations it runs are chosen so that every    *)
(* division is exact:                                                      *)
(*   time            milliseconds                                          *)
(*   percent         1/100 of a percent  (100 % = 10000)                   *)
(*   pressure        millibar                                              *)
(*   flow            1/100 of a litre per minute                           *)
(*   volume          millilitres (1e-6 m3)                                 *)
(*   length          1/100 of a millimetre                                 *)
(*   voltage         millivolts                                            *)
(* Python's None is NoneVal (-1) where the value is otherwise a            *)
(* non-negative number.                                                    *)
(***************************************************************************)
EXTENDS Integers, Sequences, FiniteSets, TLC

\* ------------------------------------------------------------------ bounds

\* How many worker threads start() may create in one run of the model, in the
\* specification of the engine's life cycle.
MaxThreads == 2
\* The same, in the specifications that follow the instruments.
SimThreads == 1
\* The longest time since last_update_time the model follows, in nominal
\* periods (so delta_time ranges over 0 .. MaxElapsed periods).
MaxElapsed == 1
\* The pulse count up to which the model follows a flow meter.
MaxPulses == 4
\* The deadman time up to which the model follows a tank truck interlock, in
\* nominal periods.
MaxTimer == 51
\* The highest current handed to a DAC, in steps of 0.1 mA.
MaxCurrent == 250

\* ------------------------------------------------------- program constants

\* update_rate_hz = 10: the nominal period, in milliseconds.
UpdateIntervalMs == 100
\* MockDAC: 12-bit full scale.
DacFullScale == 4095

NoneVal == -1

Min(a, b) == IF a < b THEN a ELSE b
Max(a, b) == IF a > b THEN a ELSE b

\* Python: d[k] = v (creates or overwrites the key).
Assign(d, k, v) == [x \in (DOMAIN d) \cup {k} |-> IF x = k THEN v ELSE d[x]]
\* Python: {} / dict.clear()
EmptyDict == [x \in {} |-> 0]
Has(d, keys) == keys \subseteq DOMAIN d

\* ------------------------------------------------------------- hardware

\* An IOPin: pin_number, i2c_address and channel are NoneVal when absent.
IOPin(t, p, a, c) == [pin_type |-> t, pin_number |-> p, i2c_address |-> a, channel |-> c]

\* MockGPIO.input through GPIODriver.read: an unknown pin reads 0.
GpioRead(pn, p) == IF p \in DOMAIN pn THEN pn[p].value ELSE FALSE

\* An output that sets up the pin it is asked to drive.
GpioWriteCreates(pn, p, v) ==
    [q \in (DOMAIN pn) \cup {p} |->
        IF q = p THEN [mode |-> "output", value |-> v] ELSE pn[q]]

\* MockGPIO.output through GPIODriver.write: an unknown pin is ignored.
GpioWrite(pn, p, v) ==
    IF p \in DOMAIN pn THEN [pn EXCEPT ![p].value = v] ELSE pn

\* DACDriver.set_current_ma for current_ma = 4 + (percent / 100) * 16, as the
\* instruments call it: the current is clamped to 4..20 mA, mapped to
\* 0..3.3 V, normalised and truncated to a 12-bit code by MockDAC.
DacCodeOfPercent(pct) ==
    LET clamped == Max(0, Min(10000, pct))
    IN  (clamped * DacFullScale) \div 10000

\* A converter that scales to 4096.
NormalizedValueOver(num, den) == (num * (DacFullScale + 1)) \div den

\* MockDAC.normalized_value (setter) for the value num / den in 0..1:
\* int(value * 4095).
NormalizedValue(num, den) == (num * DacFullScale) \div den

\* DACDriver.set_voltage(voltage, max_voltage) for voltage / max_voltage =
\* num / den: the ratio is clamped to 0..1 and handed to the converter.
SetVoltage(num, den) ==
    IF num <= 0 THEN NormalizedValue(0, den)
    ELSE IF num >= den THEN NormalizedValue(den, den)
    ELSE NormalizedValue(num, den)

\* `if current_ma < 4.0: ... if current_ma > 20.0: ...`, in microamperes.
ClampCurrent(current_ma) == Max(4000, Min(20000, current_ma))

\* DACDriver.set_current_ma(current_ma), in microamperes: the code the
\* converter holds afterwards. voltage / 3.3 is (current_ma - 4) / 16.
SetCurrentMa(current_ma) == SetVoltage(ClampCurrent(current_ma) - 4000, 16000)

\* MockADC.read_channel: a list of four channels; any other index raises.
AdcChannelOk(ch) == ch \in (-4)..3
\* `pin.channel or 0`
ChannelOr0(ch) == IF ch = NoneVal THEN 0 ELSE ch

\* ----------------------------------------------------------- instruments

\* The keys _load_config puts into self.state, per instrument type.
InitState(type) ==
    CASE type = "valve" ->
           [position_percent |-> 0, status |-> "closed", open_cmd |-> FALSE,
            close_cmd |-> FALSE, hold_cmd |-> FALSE]
      [] type = "pump" ->
           [running |-> FALSE, enable_cmd |-> FALSE, speed_cmd_percent |-> 0,
            current_speed_percent |-> 0, pressure_bar |-> 0, flow_lpm |-> 0,
            fault |-> FALSE]
      [] type = "reg_valve" ->
           [position_percent |-> 0, setpoint_percent |-> 0, open_cmd |-> FALSE,
            hold_cmd |-> FALSE, at_closed_limit |-> TRUE, pressure_bar |-> 0]
      [] type = "level" ->
           [level_mm |-> 0, level_percent |-> 0, volume_m3 |-> 0,
            hh_alarm |-> FALSE]
      [] type = "flow" ->
           [flow_lpm |-> 0, total_volume_liters |-> 0, total_mass_kg |-> 0,
            pulse_a |-> FALSE, pulse_b |-> FALSE, start_enabled |-> FALSE,
            reset_cmd |-> FALSE, noise_cmd |-> FALSE, pulse_accumulator |-> 0,
            pulse_count |-> 0]
      [] type = "tankbil" ->
           [ground_ok |-> FALSE, overfill_ok |-> FALSE, deadman_pressed |-> FALSE,
            test_ground_cmd |-> FALSE, test_overfill_cmd |-> FALSE,
            deadman_warning |-> FALSE, system_safe |-> FALSE, deadman_timer |-> 0]

\* The attributes _load_config reads out of the parameter dictionary, with
\* their defaults (config.get(name, default)).
Defaults(type) ==
    CASE type = "valve" ->
           [open_speed_sec |-> 5000, close_speed_sec |-> 5000,
            has_hold_solenoid |-> FALSE, has_return_spring |-> FALSE,
            valve_type |-> "import"]
      [] type = "pump" ->
           [control_type |-> "digital", max_pressure_bar |-> 10000,
            set_pressure_bar |-> 8000, max_flow_lpm |-> 10000,
            ramp_time_sec |-> 5000]
      [] type = "reg_valve" ->
           [valve_type |-> "LVRA", open_speed_sec |-> 10000,
            close_speed_sec |-> 10000, min_position_20_pct |-> FALSE,
            feedback_type |-> "analog"]
      [] type = "level" ->
           [tank_height_mm |-> 200000, height_100_percent |-> 200000,
            height_hh_alarm |-> 180000, tank_volume_m3 |-> 10000000]
      [] type = "flow" ->
           [unit |-> "L/min", pulse_type |-> "quadrature", velocity_ms |-> 1000,
            noise_enabled |-> FALSE, noise_dropout_ms |-> 10,
            pulses_per_liter |-> 100]
      [] type = "tankbil" -> [deadman_enabled |-> TRUE]

LoadConfig(type, cfg) ==
    [k \in DOMAIN Defaults(type) |->
        IF k \in DOMAIN cfg THEN cfg[k] ELSE Defaults(type)[k]]

\* LevelSimulator._load_config: cross_section_m2, kept as the pair it is
\* computed from (volume is divided by it as volume * height / tank volume).
LevelMmOfVolume(at, vol) == (vol * at.tank_height_mm) \div at.tank_volume_m3

\* The link an instrument type reads in update, and the state key it reads.
LinkName(type) ==
    CASE type = "level" -> "flowmeter"
      [] type = "pump" -> "reg_valve"
      [] type = "flow" -> "pump"
      [] OTHER -> "none"
LinkKey(type) ==
    CASE type = "level" -> "flow_lpm"
      [] type = "pump" -> "pressure_bar"
      [] type = "flow" -> "flow_lpm"
      [] OTHER -> "none"

\* `x or 0.0`
OrZero(v) == IF v = NoneVal THEN 0 ELSE v

\* The result of a phase callback: the instrument's state afterwards, and
\* whether the callback raised.
Ok(st) == [st |-> st, exc |-> FALSE]
Raise(st) == [st |-> st, exc |-> TRUE]

\* An opening step that adds the whole travel of the tick.
RampUpUnclamped(position, delta_pos) == position + delta_pos

\* `min(100.0, position + delta_pos)`
RampUp(position, delta_pos) == Min(10000, position + delta_pos)

\* A valve that takes the hold solenoid as fitted whatever its configuration.
HoldFittedAlways(at) == TRUE

\* `self.has_hold_solenoid`, as update and read_inputs test it.
HoldFitted(at) == at.has_hold_solenoid

\* ValveSimulator.update
\* A valve that travels at half the speed.
DeltaPosSlow(speed_sec, dt) == (5000 * dt) \div speed_sec

\* delta_pos = (100.0 / self.open_speed_sec) * delta_time, and the same with
\* close_speed_sec.
DeltaPos(speed_sec, dt) == (10000 * dt) \div speed_sec

\* A valve that reports the limits only at the very ends of its travel.
IdleStatusExact(position) ==
    IF position >= 10000 THEN "open" ELSE IF position <= 0 THEN "closed" ELSE "hold"

\* "No active command, maintain position": the status by the position.
IdleStatus(position) ==
    IF position >= 9900 THEN "open" ELSE IF position <= 100 THEN "closed" ELSE "hold"

ValveUpdate(st, at, dt) ==
    IF ~Has(st, {"open_cmd", "close_cmd", "hold_cmd", "position_percent"})
    THEN Raise(st)
    ELSE
    LET position == st.position_percent
        closing ==
            IF position > 0
            THEN IF at.close_speed_sec = 0 THEN Raise(st)
                 ELSE Ok(Assign(Assign(st, "position_percent",
                        Max(0, position - DeltaPos(at.close_speed_sec, dt))),
                        "status", "closing"))
            ELSE Ok(Assign(st, "status", "closed"))
    IN  IF st.hold_cmd /\ HoldFitted(at)
        THEN Ok(Assign(st, "status", "hold"))
        ELSE IF st.open_cmd /\ ~st.close_cmd
        THEN IF position < 10000
             THEN IF at.open_speed_sec = 0 THEN Raise(st)
                  ELSE Ok(Assign(Assign(st, "position_percent",
                         RampUp(position, DeltaPos(at.open_speed_sec, dt))),
                         "status", "opening"))
             ELSE Ok(Assign(st, "status", "open"))
        ELSE IF st.close_cmd /\ ~st.open_cmd
        THEN closing
        ELSE IF at.has_return_spring /\ ~st.open_cmd
        THEN closing
        ELSE Ok(Assign(st, "status", IdleStatus(position)))

\* A ramp that adds or subtracts the whole rate of the tick.
RampSpeedPast(current_speed, target_speed, ramp_rate) ==
    IF current_speed < target_speed THEN current_speed + ramp_rate
    ELSE IF current_speed > target_speed THEN current_speed - ramp_rate
    ELSE current_speed

\* `if current_speed < target_speed: min(target_speed, current_speed + ramp_rate)
\*  elif current_speed > target_speed: max(target_speed, current_speed - ramp_rate)`
RampSpeed(current_speed, target_speed, ramp_rate) ==
    IF current_speed < target_speed THEN Min(target_speed, current_speed + ramp_rate)
    ELSE IF current_speed > target_speed THEN Max(target_speed, current_speed - ramp_rate)
    ELSE current_speed

\* A pressure that is stored as computed.
PressureUnclamped(at, raw) == raw

\* `max(0.0, min(self.max_pressure_bar, self.state['pressure_bar']))`
PressureClamped(at, raw) == Max(0, Min(at.max_pressure_bar, raw))

\* PumpSimulator.update; back is the value read through the reg_valve link.
PumpUpdate(st, at, dt, back) ==
    IF ~Has(st, {"enable_cmd", "current_speed_percent"}
                  \cup (IF at.control_type = "digital" THEN {} ELSE {"speed_cmd_percent"}))
       \/ at.ramp_time_sec = 0
    THEN Raise(st)
    ELSE
    LET target_speed ==
            IF ~st.enable_cmd THEN 0
            ELSE IF at.control_type = "digital" THEN 10000
            ELSE st.speed_cmd_percent
        current_speed == st.current_speed_percent
        ramp_rate == (10000 * dt) \div at.ramp_time_sec
        speed == RampSpeed(current_speed, target_speed, ramp_rate)
        back_pressure == OrZero(back)
        raw == (at.set_pressure_bar * speed) \div 10000 - back_pressure \div 2
        pressure == PressureClamped(at, raw)
        pressure_diff == pressure - back_pressure
        flow == IF pressure_diff > 0
                THEN Min(at.max_flow_lpm,
                         (((pressure_diff * at.max_flow_lpm) \div at.max_pressure_bar)
                            * speed) \div 10000)
                ELSE 0
    IN  Ok([k \in (DOMAIN st) \cup {"running", "pressure_bar", "flow_lpm", "fault"} |->
              CASE k = "current_speed_percent" -> speed
                [] k = "running" -> speed > 100
                [] k = "pressure_bar" -> pressure
                [] k = "flow_lpm" -> flow
                [] k = "fault" -> pressure >= at.max_pressure_bar
                [] OTHER -> st[k]])

\* A 20 % minimum that applies to a setpoint of 0 as well.
RampTargetFloored(at, raw) == IF at.min_position_20_pct THEN Max(2000, raw) ELSE raw

\* `if self.min_position_20_pct and target > 0: target = max(20.0, target)`
RampTarget(at, raw) == IF at.min_position_20_pct /\ raw > 0 THEN Max(2000, raw) ELSE raw

\* RegValveSimulator.update
RegValveUpdate(st, at, dt) ==
    IF ~Has(st, {"setpoint_percent", "hold_cmd"}) THEN Raise(st)
    ELSE IF st.hold_cmd THEN Ok(st)
    ELSE IF ~Has(st, {"position_percent"}) THEN Raise(st)
    ELSE
    LET raw == st.setpoint_percent
        target == RampTarget(at, raw)
        current_pos == st.position_percent
        bad == \/ current_pos < target /\ at.open_speed_sec = 0
               \/ current_pos > target /\ at.close_speed_sec = 0
        pos == IF current_pos < target
               THEN Min(target, current_pos + (10000 * dt) \div at.open_speed_sec)
               ELSE IF current_pos > target
               THEN Max(target, current_pos - (10000 * dt) \div at.close_speed_sec)
               ELSE current_pos
    IN  IF bad THEN Raise(st)
        ELSE Ok([k \in (DOMAIN st) \cup {"at_closed_limit", "pressure_bar"} |->
                   CASE k = "position_percent" -> pos
                     [] k = "at_closed_limit" -> pos < 500
                     [] k = "pressure_bar" ->
                          IF pos > 0 THEN 2000 - pos \div 5 ELSE 10000
                     [] OTHER -> st[k]])

\* LevelSimulator.update, up to and including the assignment numbered `upto`
\* (1 volume_m3, 2 level_mm, 3 level_percent, 4 hh_alarm); flow is the value
\* read through the flowmeter link.
LevelNewVolume(st, at, dt, flow) ==
    Max(0, Min(at.tank_volume_m3, st.volume_m3 + (OrZero(flow) * dt) \div 6000))
LevelAssignments(st, at, new_volume, upto) ==
    LET level_mm == LevelMmOfVolume(at, new_volume)
        s1 == Assign(st, "volume_m3", new_volume)
        s2 == Assign(s1, "level_mm", level_mm)
        s3 == Assign(s2, "level_percent", (level_mm * 10000) \div at.height_100_percent)
        s4 == Assign(s3, "hh_alarm", level_mm >= at.height_hh_alarm)
    IN  CASE upto = 0 -> st
          [] upto = 1 -> s1
          [] upto = 2 -> s2
          [] upto = 3 -> s3
          [] OTHER -> s4
LevelUpdate(st, at, dt, flow) ==
    IF ~Has(st, {"volume_m3"}) \/ at.tank_volume_m3 = 0 THEN Raise(st)
    ELSE IF at.height_100_percent = 0
    THEN Raise(LevelAssignments(st, at, LevelNewVolume(st, at, dt, flow), 2))
    ELSE Ok(LevelAssignments(st, at, LevelNewVolume(st, at, dt, flow), 4))

\* The pulse outputs of the quadrature phase pulse_count % 4.
QuadraturePhase(phase) ==
    CASE phase = 0 -> [pulse_a |-> TRUE, pulse_b |-> FALSE]
      [] phase = 1 -> [pulse_a |-> TRUE, pulse_b |-> TRUE]
      [] phase = 2 -> [pulse_a |-> FALSE, pulse_b |-> TRUE]
      [] OTHER -> [pulse_a |-> FALSE, pulse_b |-> FALSE]

\* A pulse counter that wraps with the quadrature phase.
NextCountWrapped(count) == (count + 1) % 4

\* `self.state['pulse_count'] += 1`
NextCount(count) == count + 1

\* An accumulator that gives up all its whole pulses for the one counted.
TakeWholePulses(accumulator) == accumulator % 1000

\* `self.state['pulse_accumulator'] -= 1.0`, in 1/1000 pulse.
TakePulse(accumulator) == accumulator - 1000

\* `if self.state['pulse_accumulator'] >= 1.0:` and its body, on a state whose
\* accumulator (in 1/1000 pulse) already holds this tick's pulses: at most one
\* pulse is taken out of the accumulator. drop is whether random.random()
\* came out below 0.1.
FlowPulse(st, at, drop) ==
    IF st.pulse_accumulator < 1000 THEN Ok(st)
    ELSE IF ~Has(st, {"pulse_count", "noise_cmd"}) THEN Raise(st)
    ELSE
    LET count == NextCount(st.pulse_count)
        s1 == Assign(Assign(st, "pulse_count", count),
                     "pulse_accumulator", TakePulse(st.pulse_accumulator))
    IN  IF st.noise_cmd /\ drop THEN Ok(s1)
        ELSE IF at.pulse_type = "quadrature"
        THEN Ok(Assign(Assign(s1, "pulse_a", QuadraturePhase(count % 4).pulse_a),
                       "pulse_b", QuadraturePhase(count % 4).pulse_b))
        ELSE IF ~Has(st, {"pulse_a"}) THEN Raise(s1)
        ELSE Ok(Assign(Assign(s1, "pulse_a", ~st.pulse_a), "pulse_b", ~st.pulse_a))

\* `if self.state['reset_cmd']:` and its body, at the end of update.
FlowReset(st) ==
    IF ~Has(st, {"reset_cmd"}) THEN Raise(st)
    ELSE IF ~st.reset_cmd THEN Ok(st)
    ELSE Ok([k \in (DOMAIN st) \cup {"total_volume_liters", "total_mass_kg",
                                     "pulse_count", "pulse_accumulator"} |->
               CASE k \in {"total_volume_liters", "total_mass_kg",
                           "pulse_count", "pulse_accumulator"} -> 0
                 [] k = "reset_cmd" -> FALSE
                 [] OTHER -> st[k]])

\* A meter that takes the linked flow as litres per second.
DeltaVolumePerSecond(flow, dt) == (flow * dt) \div 100

\* `flow_lps = linked_flow / 60.0; delta_volume_liters = flow_lps * delta_time`,
\* in millilitres.
DeltaVolume(flow, dt) == (flow * dt) \div 6000

\* FlowSimulator.update; flow is the value read through the pump link, in both
\* units taken as litres per minute. Volume is in millilitres, mass in grams.
FlowUpdate(st, at, dt, flow, drop) ==
    IF ~Has(st, {"start_enabled"}) THEN Raise(st)
    ELSE IF ~st.start_enabled THEN Ok(st)
    ELSE
    LET linked_flow == OrZero(flow)
        delta_volume_liters == DeltaVolume(linked_flow, dt)
        s1 == Assign(st, "flow_lpm", linked_flow)
    IN  IF ~Has(st, {"total_volume_liters"}) THEN Raise(s1)
        ELSE
        LET total == st.total_volume_liters + delta_volume_liters
            s2 == Assign(Assign(s1, "total_volume_liters", total), "total_mass_kg", total)
        IN  IF ~Has(st, {"pulse_accumulator"}) THEN Raise(s2)
            ELSE
            LET s3 == Assign(s2, "pulse_accumulator",
                             st.pulse_accumulator + delta_volume_liters * at.pulses_per_liter)
                r == FlowPulse(s3, at, drop)
            IN  IF r.exc THEN r ELSE FlowReset(r.st)

\* Whether a random.random() came out below 0.1.
RandomDraws == BOOLEAN

\* A deadman timer that a press does not reset.
DeadmanTimerNoReset(st, dt) == st.deadman_timer + dt

\* The deadman timer after an update of delta time dt, in milliseconds.
DeadmanTimer(st, dt) == IF st.deadman_pressed THEN 0 ELSE st.deadman_timer + dt

\* A deadman interlock that never trips.
DeadmanSafeAlways(at, timer) == TRUE

\* `not self.deadman_enabled or (self.state['deadman_timer'] < 5.0)`
DeadmanSafe(at, timer) == ~at.deadman_enabled \/ timer < 5000

\* TankbilSimulator.update
TankbilUpdate(st, at, dt) ==
    IF /\ at.deadman_enabled
       /\ \/ ~Has(st, {"deadman_pressed"})
          \/ ~st.deadman_pressed /\ ~Has(st, {"deadman_timer"})
    THEN Raise(st)
    ELSE
    LET timer == IF at.deadman_enabled THEN DeadmanTimer(st, dt) ELSE 0
        s1 == Assign(Assign(st, "deadman_timer", timer),
                     "deadman_warning", at.deadman_enabled /\ timer > 2000)
    IN  IF ~Has(st, {"ground_ok", "overfill_ok"}) THEN Raise(s1)
        ELSE Ok(Assign(s1, "system_safe",
                       st.ground_ok /\ st.overfill_ok /\ DeadmanSafe(at, timer)))

\* LevelSimulator.set_level_percent
SetLevelPercentEffect(st, at, percent) ==
    LET pct == Max(0, Min(10000, percent))
        level_mm == (pct * at.height_100_percent) \div 10000
        volume_m3 == (level_mm * at.tank_volume_m3) \div at.tank_height_mm
    IN  Assign(Assign(Assign(Assign(st, "level_mm", level_mm),
                             "level_percent", pct),
                      "volume_m3", volume_m3),
               "hh_alarm", level_mm >= at.height_hh_alarm)

\* update(delta_time) of an instrument of the given type; rnd is the outcome
\* of the random draw the update may make.
Update(type, st, at, dt, linked, rnd) ==
    CASE type = "valve" -> ValveUpdate(st, at, dt)
      [] type = "pump" -> PumpUpdate(st, at, dt, linked)
      [] type = "reg_valve" -> RegValveUpdate(st, at, dt)
      [] type = "level" -> LevelUpdate(st, at, dt, linked)
      [] type = "flow" -> FlowUpdate(st, at, dt, linked, rnd)
      [] type = "tankbil" -> TankbilUpdate(st, at, dt)

\* read_inputs: the inputs an instrument type samples, in the order of the
\* source: <<io name, kind, state key>>.
InputSpecs(type, at) ==
    CASE type = "valve" ->
           <<  <<"open_input", "digital", "open_cmd">>,
               <<"close_input", "digital", "close_cmd">> >>
           \o (IF HoldFitted(at)
               THEN << <<"hold_input", "digital", "hold_cmd">> >> ELSE << >>)
      [] type = "pump" ->
           << <<"enable_input", "digital", "enable_cmd">> >>
           \o (IF at.control_type = "analog"
               THEN << <<"speed_input", "analog", "speed_cmd_percent">> >> ELSE << >>)
      [] type = "reg_valve" ->
           << <<"open_input", "digital", "open_cmd">>,
              <<"hold_input", "digital", "hold_cmd">>,
              <<"position_input", "analog_clamped", "setpoint_percent">> >>
      [] type = "level" -> << >>
      [] type = "flow" ->
           << <<"start_input", "digital", "start_enabled">>,
              <<"reset_input", "digital", "reset_cmd">>,
              <<"noise_input", "digital", "noise_cmd">> >>
      [] type = "tankbil" ->
           << <<"ground_ok_input", "digital", "ground_ok">>,
              <<"overfill_ok_input", "digital", "overfill_ok">> >>
           \o (IF at.deadman_enabled
               THEN << <<"deadman_input", "digital", "deadman_pressed">> >> ELSE << >>)

\* One input of read_inputs. 0-10 V maps to 0-100 %: a millivolt is 1/100 %.
ReadOne(spec, st, io, pn, ad) ==
    IF spec[1] \notin DOMAIN io THEN Ok(st)
    ELSE LET pin == io[spec[1]] IN
         IF spec[2] = "digital"
         THEN IF pin.pin_number = NoneVal THEN Ok(st)
              ELSE Ok(Assign(st, spec[3], GpioRead(pn, pin.pin_number)))
         ELSE IF pin.i2c_address \notin DOMAIN ad THEN Ok(st)
              ELSE IF ~AdcChannelOk(ChannelOr0(pin.channel)) THEN Raise(st)
              ELSE LET voltage == ad[pin.i2c_address][ChannelOr0(pin.channel) + 1]
                   IN  Ok(Assign(st, spec[3],
                          IF spec[2] = "analog_clamped"
                          THEN Max(0, Min(10000, voltage)) ELSE voltage))

RECURSIVE ReadFrom(_, _, _, _, _, _)
ReadFrom(specs, n, st, io, pn, ad) ==
    IF n > Len(specs) THEN Ok(st)
    ELSE LET r == ReadOne(specs[n], st, io, pn, ad)
         IN  IF r.exc THEN r ELSE ReadFrom(specs, n + 1, r.st, io, pn, ad)

\* read_inputs(gpio_driver, adc_drivers) of an instrument of the given type.
ReadInputs(type, st, at, io, pn, ad) == ReadFrom(InputSpecs(type, at), 1, st, io, pn, ad)

\* write_outputs: the outputs an instrument type drives, in the order of the
\* source: <<io name, kind, state key>>.
OutputSpecs(type) ==
    CASE type = "valve" -> << >>
      [] type = "pump" ->
           << <<"running_output", "digital", "running">>,
              <<"fault_output", "digital", "fault">>,
              <<"feedback_output", "analog", "current_speed_percent">> >>
      [] type = "reg_valve" ->
           << <<"closed_limit_output", "digital", "at_closed_limit">>,
              <<"position_output", "analog", "position_percent">> >>
      [] type = "level" ->
           << <<"level_output", "analog", "level_percent">>,
              <<"hh_alarm_output", "digital", "hh_alarm">> >>
      [] type = "flow" ->
           << <<"pulse_a_output", "digital", "pulse_a">>,
              <<"pulse_b_output", "digital", "pulse_b">> >>
      [] type = "tankbil" ->
           << <<"test_ground_output", "digital", "test_ground_cmd">>,
              <<"test_overfill_output", "digital", "test_overfill_cmd">>,
              <<"deadman_warning_output", "digital", "deadman_warning">> >>

\* One output of write_outputs on the hardware h = [pins, dac, exc].
WriteOne(spec, st, io, h) ==
    IF spec[1] \notin DOMAIN io THEN h
    ELSE LET pin == io[spec[1]] IN
         IF spec[2] = "digital"
         THEN IF pin.pin_number = NoneVal THEN h
              ELSE IF spec[3] \notin DOMAIN st THEN [h EXCEPT !.exc = TRUE]
              ELSE [h EXCEPT !.pins = GpioWrite(h.pins, pin.pin_number, st[spec[3]])]
         ELSE IF pin.i2c_address \notin DOMAIN h.dac THEN h
              ELSE IF spec[3] \notin DOMAIN st THEN [h EXCEPT !.exc = TRUE]
              ELSE [h EXCEPT !.dac[pin.i2c_address] = DacCodeOfPercent(st[spec[3]])]

RECURSIVE WriteFrom(_, _, _, _, _)
WriteFrom(specs, n, st, io, h) ==
    IF n > Len(specs) THEN h
    ELSE LET r == WriteOne(specs[n], st, io, h)
         IN  IF r.exc THEN r ELSE WriteFrom(specs, n + 1, st, io, r)

\* write_outputs(gpio_driver, dac_drivers) of an instrument of the given type.
WriteOutputs(type, st, io, pn, dc) ==
    WriteFrom(OutputSpecs(type), 1, st, io, [pins |-> pn, dac |-> dc, exc |-> FALSE])

\* ------------------------------------------------------------- the state

VARIABLES
    simulators,          \* SimulationEngine.simulators: the ids, in dictionary order
    types,               \* id -> instrument type (the simulator's class)
    attrs,               \* id -> the attributes _load_config set at construction
    config,              \* id -> BaseSimulator.config, the parameter dictionary
    io_pins,             \* id -> io name -> IOPin
    linked_instruments,  \* id -> link name -> target id
    state,               \* id -> BaseSimulator.state
    pins,                \* MockGPIO.pins: pin -> [mode, value]
    adc,                 \* adc_drivers: address -> the four channel voltages
    dac,                 \* dac_drivers: address -> the 12-bit code
    is_running,          \* SimulationEngine.is_running
    sim_thread,          \* SimulationEngine.sim_thread (0 is None)
    elapsed,             \* time.time() - last_update_time, in nominal periods
                         \* (NoneVal while last_update_time is None)
    threads,             \* thread id -> [pc, idx, delta_time, aged]
    stats,               \* SimulationEngine.stats
    adapter,             \* the adapter thread: [pc]
    tick,                \* history: thread id -> what its current tick has called
    link_read,           \* history: id -> the value its last update read through its link
    prev_end,            \* history: id -> the linkable part of its state when
                         \* the last tick ended
    ticks_done,          \* history: some tick has ended
    upd,                 \* id -> the update() that holds its update_lock:
                         \* [by, new_volume, done, before] (by = 0: lock free)
    snap,                \* the get_display_data call in progress:
                         \* [pc, id, k, data, seen] (seen is history)
    config_data,         \* ConfigManager.config_data['instruments']: the entries
    loader,              \* how far ConfigManager.initialize() has come
    gpio_call            \* the last call a client made on the GPIODriver itself:
                         \* [op, pin, raised, value, released] (released is
                         \* history: the pins a cleanup() released that have
                         \* not been set up since)

vars == <<simulators, types, attrs, config, io_pins, linked_instruments, state,
          pins, adc, dac, is_running, sim_thread, elapsed, threads, stats,
          adapter, tick, link_read, prev_end, ticks_done, upd, snap,
          config_data, loader, gpio_call>>

loadVars == <<config_data, loader, gpio_call>>
confVars == <<simulators, types, attrs, io_pins, linked_instruments, loadVars>>
halVars == <<pins, adc, dac>>
engineVars == <<is_running, sim_thread, elapsed, threads>>
histVars == <<tick, link_read, prev_end, ticks_done>>
snapVars == <<upd, snap>>

\* No update() holds the instrument's lock; no get_display_data is in progress.
UpdIdle == [by |-> 0, new_volume |-> 0, done |-> 0, before |-> EmptyDict]
SnapIdle == [pc |-> "idle", id |-> "none", k |-> 0, data |-> EmptyDict, seen |-> {}]

Threads == DOMAIN threads
Ids == {simulators[n] : n \in 1..Len(simulators)}
Pos(id) == CHOOSE n \in 1..Len(simulators) : simulators[n] = id

TickPhases == {"read", "update", "write", "stats"}
Alive(t) == threads[t].pc \notin {"unborn", "dead"}

\* A get_linked_value that reads the copy of the states taken when the last
\* tick ended.
GetLinkedValueSnapshot(sts, links, link_name, value_name) ==
    IF link_name \in DOMAIN links
    THEN IF value_name \in DOMAIN prev_end[links[link_name]]
         THEN prev_end[links[link_name]][value_name] ELSE NoneVal
    ELSE NoneVal

\* BaseSimulator.get_linked_value: linked.state.get(value_name), or None.
GetLinkedValue(sts, links, link_name, value_name) ==
    IF link_name \in DOMAIN links
    THEN IF value_name \in DOMAIN sts[links[link_name]]
         THEN sts[links[link_name]][value_name] ELSE NoneVal
    ELSE NoneVal

\* What update(id) reads through its link in the states sts.
LinkedValue(sts, id) ==
    GetLinkedValue(sts, linked_instruments[id], LinkName(types[id]), LinkKey(types[id]))

\* SimulationEngine.initialize_hardware on a mock HAL: the pins, ADCs and
\* DACs the instruments' IOPins name. Outputs are set up first, then inputs.
IoPinsOf(io) == UNION {{io[i][n] : n \in DOMAIN io[i]} : i \in DOMAIN io}
HwPins(io) ==
    LET outs == {p.pin_number : p \in {q \in IoPinsOf(io) :
                     q.pin_type = "digital_out" /\ q.pin_number # NoneVal}}
        ins == {p.pin_number : p \in {q \in IoPinsOf(io) :
                     q.pin_type = "digital_in" /\ q.pin_number # NoneVal}}
    IN  [p \in outs \cup ins |->
            [mode |-> IF p \in ins THEN "input" ELSE "output", value |-> FALSE]]
HwAdc(io) ==
    LET addrs == {p.i2c_address : p \in {q \in IoPinsOf(io) :
                     q.pin_type = "analog_in" /\ q.i2c_address # NoneVal}}
    IN  [a \in addrs |-> <<0, 0, 0, 0>>]
HwDac(io) ==
    LET addrs == {p.i2c_address : p \in {q \in IoPinsOf(io) :
                     q.pin_type = "analog_out" /\ q.i2c_address # NoneVal}}
    IN  [a \in addrs |-> 0]

\* ------------------------------------------------------- configurations

\* A regulating valve and a pump that reads the valve's pressure as its
\* back-pressure, in the given dictionary order.
CfgValvePump(order) ==
    [simulators |-> order,
     types |-> [rv1 |-> "reg_valve", pump1 |-> "pump"],
     parameters |->
        [rv1 |-> [open_speed_sec |-> 200, close_speed_sec |-> 200],
         pump1 |-> [ramp_time_sec |-> 200]],
     io |->
        [rv1 |-> [position_input |-> IOPin("analog_in", NoneVal, 72, 0),
                  closed_limit_output |-> IOPin("digital_out", 5, NoneVal, NoneVal)],
         pump1 |-> [enable_input |-> IOPin("digital_in", 17, NoneVal, NoneVal),
                    running_output |-> IOPin("digital_out", 27, NoneVal, NoneVal)]],
     links |-> [rv1 |-> EmptyDict, pump1 |-> [reg_valve |-> "rv1"]]]

\* No call has been made on the GPIODriver itself.
NoCall == [op |-> "none", pin |-> 0, raised |-> FALSE, value |-> FALSE, released |-> {}]

\* An entry of the `instruments` list of the YAML file. A key that is absent
\* is Missing (id, type) or the empty dictionary (parameters, io, links), as
\* inst_config.get returns it.
Missing == "None"
Entry(id, type, parameters, io, links) ==
    [id |-> id, type |-> type, parameters |-> parameters, io |-> io, links |-> links]

\* The entries from which ConfigManager builds the configuration c.
EntriesOf(c) ==
    [n \in 1..Len(c.simulators) |->
        LET i == c.simulators[n]
        IN  Entry(i, c.types[i], c.parameters[i], c.io[i], c.links[i])]

\* The state after ConfigManager.initialize() and SimulationEngine(...), the
\* hardware apart, for the configuration c, in a run that creates at most n
\* worker threads. InitOf is the state after initialize_hardware() as well.
Constructed(c, n) ==
    /\ simulators = c.simulators
    /\ types = c.types
    /\ config = c.parameters
    /\ attrs = [i \in DOMAIN c.types |-> LoadConfig(c.types[i], c.parameters[i])]
    /\ io_pins = c.io
    /\ linked_instruments = c.links
    /\ state = [i \in DOMAIN c.types |-> InitState(c.types[i])]
    /\ is_running = FALSE
    /\ sim_thread = 0
    /\ elapsed = NoneVal
    /\ threads = [t \in 1..n |->
                    [pc |-> "unborn", idx |-> 0, delta_time |-> 0, aged |-> FALSE]]
    /\ stats = [ticked |-> FALSE, update_rate |-> 0]
    /\ adapter = [pc |-> "idle"]
    /\ tick = [t \in 1..n |-> [reads |-> {}, updates |-> {}, writes |-> {},
                                exc |-> "none", after |-> "none"]]
    /\ link_read = [i \in DOMAIN c.types |-> NoneVal]
    /\ prev_end = [i \in DOMAIN c.types |->
                     [k \in (DOMAIN InitState(c.types[i])) \cap {"pressure_bar", "flow_lpm"} |->
                         InitState(c.types[i])[k]]]
    /\ ticks_done = FALSE
    /\ upd = [i \in DOMAIN c.types |-> UpdIdle]
    /\ snap = SnapIdle
    /\ config_data = EntriesOf(c)
    /\ loader = "linked"
    /\ gpio_call = NoCall

InitOf(c, n) ==
    /\ Constructed(c, n)
    /\ pins = HwPins(c.io)
    /\ adc = HwAdc(c.io)
    /\ dac = HwDac(c.io)

\* Two instruments without I/O pins and links: their state stays as constructed
\* unless reset.
CfgIdle ==
    [simulators |-> <<"valve1", "tank1">>,
     types |-> [valve1 |-> "valve", tank1 |-> "level"],
     parameters |-> [valve1 |-> EmptyDict, tank1 |-> EmptyDict],
     io |-> [valve1 |-> EmptyDict, tank1 |-> EmptyDict],
     links |-> [valve1 |-> EmptyDict, tank1 |-> EmptyDict]]

\* A regulating valve alone, with its travel times given in the YAML file.
CfgRegValve ==
    [simulators |-> <<"rv1">>,
     types |-> [rv1 |-> "reg_valve"],
     parameters |-> [rv1 |-> [open_speed_sec |-> 200, close_speed_sec |-> 200]],
     io |-> [rv1 |-> [position_input |-> IOPin("analog_in", NoneVal, 72, 0),
                      closed_limit_output |-> IOPin("digital_out", 5, NoneVal, NoneVal)]],
     links |-> [rv1 |-> EmptyDict]]

Init == \E o \in {<<"rv1", "pump1">>, <<"pump1", "rv1">>} :
            InitOf(CfgValvePump(o), SimThreads)

InitLife == InitOf(CfgIdle, MaxThreads)

InitFault == InitOf(CfgIdle, SimThreads)

\* A single valve without I/O pins.
CfgValve ==
    [simulators |-> <<"valve1">>,
     types |-> [valve1 |-> "valve"],
     parameters |-> [valve1 |-> EmptyDict],
     io |-> [valve1 |-> EmptyDict],
     links |-> [valve1 |-> EmptyDict]]

InitFair == InitOf(CfgValve, SimThreads)

InitParam == InitOf(CfgRegValve, SimThreads)

\* A pump that fills a small tank: the tank reads the pump's flow_lpm through
\* its flowmeter link. At full speed the pump delivers 1200 L/min, 2 L per
\* nominal period, into a tank of 4 L and 400 mm.
CfgPumpTank ==
    [simulators |-> <<"pump1", "tank1">>,
     types |-> [pump1 |-> "pump", tank1 |-> "level"],
     parameters |->
        [pump1 |-> [ramp_time_sec |-> 100, max_flow_lpm |-> 150000],
         tank1 |-> [tank_height_mm |-> 40000, height_100_percent |-> 40000,
                    height_hh_alarm |-> 30000, tank_volume_m3 |-> 4000]],
     io |-> [pump1 |-> [enable_input |-> IOPin("digital_in", 17, NoneVal, NoneVal)],
             tank1 |-> EmptyDict],
     links |-> [pump1 |-> EmptyDict, tank1 |-> [flowmeter |-> "pump1"]]]

InitSnap == InitOf(CfgPumpTank, SimThreads)

\* A pump that feeds a quadrature flow meter: at full speed the pump delivers
\* 60 L/min, 100 mL and, at 100 pulses per litre, 10 pulses per nominal period.
\* The PLC starts the meter, resets it and switches its noise on.
CfgPumpFlow ==
    [simulators |-> <<"pump1", "flow1">>,
     types |-> [pump1 |-> "pump", flow1 |-> "flow"],
     parameters |->
        [pump1 |-> [ramp_time_sec |-> 100, max_flow_lpm |-> 7500],
         flow1 |-> [pulses_per_liter |-> 100]],
     io |-> [pump1 |-> [enable_input |-> IOPin("digital_in", 17, NoneVal, NoneVal)],
             flow1 |-> [start_input |-> IOPin("digital_in", 22, NoneVal, NoneVal),
                        reset_input |-> IOPin("digital_in", 23, NoneVal, NoneVal),
                        noise_input |-> IOPin("digital_in", 24, NoneVal, NoneVal),
                        pulse_a_output |-> IOPin("digital_out", 5, NoneVal, NoneVal),
                        pulse_b_output |-> IOPin("digital_out", 6, NoneVal, NoneVal)]],
     links |-> [pump1 |-> EmptyDict, flow1 |-> [pump |-> "pump1"]]]

InitFlow == InitOf(CfgPumpFlow, SimThreads)

\* The pump and the tank of CfgPumpTank, with the 100 % mark of the tank
\* below, at and above the tank's height of 400 mm.
Heights100 == {20000, 40000, 80000}
CfgPumpTankWith(h100) ==
    [CfgPumpTank EXCEPT !.parameters.tank1.height_100_percent = h100]

\* A regulating valve and a pump that reads the valve's pressure as its
\* back-pressure, in the given control mode; the PLC enables the pump and
\* drives the analog inputs of both. The pump's set pressure is its maximum
\* pressure.
CfgPumpControl(control_type) ==
    [simulators |-> <<"rv1", "pump1">>,
     types |-> [rv1 |-> "reg_valve", pump1 |-> "pump"],
     parameters |->
        [rv1 |-> [open_speed_sec |-> 200, close_speed_sec |-> 200],
         pump1 |-> [control_type |-> control_type, ramp_time_sec |-> 50,
                    set_pressure_bar |-> 10000]],
     io |->
        [rv1 |-> [position_input |-> IOPin("analog_in", NoneVal, 72, 0)],
         pump1 |-> [enable_input |-> IOPin("digital_in", 17, NoneVal, NoneVal),
                    speed_input |-> IOPin("analog_in", NoneVal, 72, 1)]],
     links |-> [rv1 |-> EmptyDict, pump1 |-> [reg_valve |-> "rv1"]]]

\* A valve that opens in time a and closes in time b, and a regulating valve
\* that opens in time b and closes in time a; the PLC drives the valve's
\* commands and the regulating valve's setpoint.
CfgValves(a, b) ==
    [simulators |-> <<"valve1", "rv1">>,
     types |-> [valve1 |-> "valve", rv1 |-> "reg_valve"],
     parameters |->
        [valve1 |-> [open_speed_sec |-> a, close_speed_sec |-> b],
         rv1 |-> [open_speed_sec |-> b, close_speed_sec |-> a]],
     io |->
        [valve1 |-> [open_input |-> IOPin("digital_in", 22, NoneVal, NoneVal),
                     close_input |-> IOPin("digital_in", 23, NoneVal, NoneVal)],
         rv1 |-> [position_input |-> IOPin("analog_in", NoneVal, 72, 0)]],
     links |-> [valve1 |-> EmptyDict, rv1 |-> EmptyDict]]

\* One travel takes half a nominal period, the other 1.25 periods.
InitValves == \E c \in {<<50, 125>>, <<125, 50>>} :
                  InitOf(CfgValves(c[1], c[2]), SimThreads)

\* A tank truck interlock with or without the deadman function; the PLC
\* drives the ground, overfill and deadman inputs and reads the warning.
CfgTankbil(deadman_enabled) ==
    [simulators |-> <<"truck1">>,
     types |-> [truck1 |-> "tankbil"],
     parameters |-> [truck1 |-> [deadman_enabled |-> deadman_enabled]],
     io |->
        [truck1 |-> [ground_ok_input |-> IOPin("digital_in", 22, NoneVal, NoneVal),
                     overfill_ok_input |-> IOPin("digital_in", 23, NoneVal, NoneVal),
                     deadman_input |-> IOPin("digital_in", 24, NoneVal, NoneVal),
                     deadman_warning_output |-> IOPin("digital_out", 5, NoneVal, NoneVal)]],
     links |-> [truck1 |-> EmptyDict]]

\* Two valves without hold solenoid that read the same open and close
\* commands, each with a hold input of its own: two runs of one valve that
\* differ in the hold input only.
CfgTwoValves ==
    [simulators |-> <<"valve1", "valve2">>,
     types |-> [valve1 |-> "valve", valve2 |-> "valve"],
     parameters |->
        [valve1 |-> [open_speed_sec |-> 125, close_speed_sec |-> 125],
         valve2 |-> [open_speed_sec |-> 125, close_speed_sec |-> 125]],
     io |->
        [valve1 |-> [open_input |-> IOPin("digital_in", 22, NoneVal, NoneVal),
                     close_input |-> IOPin("digital_in", 23, NoneVal, NoneVal),
                     hold_input |-> IOPin("digital_in", 24, NoneVal, NoneVal)],
         valve2 |-> [open_input |-> IOPin("digital_in", 22, NoneVal, NoneVal),
                     close_input |-> IOPin("digital_in", 23, NoneVal, NoneVal),
                     hold_input |-> IOPin("digital_in", 25, NoneVal, NoneVal)]],
     links |-> [valve1 |-> EmptyDict, valve2 |-> EmptyDict]]

InitHold == InitOf(CfgTwoValves, SimThreads)

\* A regulating valve with the 20 % minimum position, alone.
CfgMinPosition ==
    [CfgRegValve EXCEPT !.parameters.rv1 =
        [open_speed_sec |-> 200, close_speed_sec |-> 200, min_position_20_pct |-> TRUE]]

InitMinPos == InitOf(CfgMinPosition, SimThreads)

\* A tank with its level on a DAC.
CfgDac ==
    [simulators |-> <<"tank1">>,
     types |-> [tank1 |-> "level"],
     parameters |-> [tank1 |-> EmptyDict],
     io |-> [tank1 |-> [level_output |-> IOPin("analog_out", NoneVal, 96, NoneVal)]],
     links |-> [tank1 |-> EmptyDict]]

InitDac == InitOf(CfgDac, SimThreads)

\* The pump and the flow meter of CfgPumpFlow, the meter with 10 pulses per
\* litre (one pulse per nominal period at 60 L/min), without noise input and
\* with its pulse outputs not wired.
CfgMeter ==
    [CfgPumpFlow EXCEPT
        !.parameters.flow1 = [pulses_per_liter |-> 10],
        !.io.flow1 = [start_input |-> IOPin("digital_in", 22, NoneVal, NoneVal),
                      reset_input |-> IOPin("digital_in", 23, NoneVal, NoneVal)]]

InitMeter == InitOf(CfgMeter, SimThreads)

InitTankbil == \E e \in BOOLEAN : InitOf(CfgTankbil(e), SimThreads)

InitPump == \E c \in {"digital", "analog"} : InitOf(CfgPumpControl(c), SimThreads)

InitLevel == \E h100 \in Heights100 : InitOf(CfgPumpTankWith(h100), SimThreads)

\* ------------------------------------------------- the worker: one tick

\* A loop that never tests the flag.
LoopForever(running) == TRUE

\* `while self.is_running:`
LoopCondition(running) == running

\* A single loop that calls read_inputs, update and write_outputs on one
\* instrument before it goes on to the next.
AfterCallPerInstrument(pc, idx, n) ==
    CASE pc = "read" -> [pc |-> "update", idx |-> idx]
      [] pc = "update" -> [pc |-> "write", idx |-> idx]
      [] pc = "write" -> IF idx < n THEN [pc |-> "read", idx |-> idx + 1]
                         ELSE [pc |-> "stats", idx |-> 0]

\* The three `for simulator in self.simulators.values()` loops: where the
\* worker stands after callback idx of phase pc returned, among n instruments.
AfterCall(pc, idx, n) ==
    IF idx < n THEN [pc |-> pc, idx |-> idx + 1]
    ELSE [pc |-> CASE pc = "read" -> "update"
                   [] pc = "update" -> "write"
                   [] pc = "write" -> "stats",
          idx |-> IF pc = "write" THEN 0 ELSE 1]

\* No handler: the exception leaves the thread function.
OnExceptionDie == [pc |-> "dead", idx |-> 0]

\* `except Exception as e: logger.error(...)`: the rest of the try block is
\* skipped and the worker goes on to the sleep at the end of the iteration.
OnException == [pc |-> "sleep", idx |-> 0]

\* Where the worker stands after a callback that raised (exc) or returned.
Proceed(t, exc) ==
    LET th == threads[t]
        to == IF exc THEN OnException ELSE AfterCall(th.pc, th.idx, Len(simulators))
    IN  [th EXCEPT !.pc = to.pc, !.idx = to.idx,
                   !.delta_time = IF to.pc = "sleep" THEN 0 ELSE th.delta_time]

\* The part of an instrument's state that other instruments read through
\* their links.
Linkable(st) == [k \in (DOMAIN st) \cap {"pressure_bar", "flow_lpm"} |-> st[k]]

\* History: the tick of thread t ends in the states sts.
EndOfTick(sts) ==
    /\ prev_end' = [j \in DOMAIN sts |-> Linkable(sts[j])]
    /\ ticks_done' = TRUE

\* The model follows an instrument while its counters are below their caps.
CountersBelowCap(type, st) ==
    CASE type = "flow" -> Has(st, {"pulse_count"}) => st.pulse_count < MaxPulses
      [] type = "tankbil" ->
           Has(st, {"deadman_timer"}) => st.deadman_timer < MaxTimer * UpdateIntervalMs
      [] OTHER -> TRUE

\* The loop test and the head of the try block: delta time and last_update_time.
BeginTick(t) ==
    /\ threads[t].pc = "loop"
    /\ LoopCondition(is_running)
    /\ \A i \in Ids : CountersBelowCap(types[i], state[i])
    /\ threads' = [threads EXCEPT ![t] =
          [pc |-> IF Len(simulators) = 0 THEN "stats" ELSE "read",
           idx |-> IF Len(simulators) = 0 THEN 0 ELSE 1,
           delta_time |-> IF elapsed = NoneVal THEN UpdateIntervalMs
                          ELSE elapsed * UpdateIntervalMs,
           aged |-> FALSE]]
    /\ elapsed' = 0
    /\ tick' = [tick EXCEPT ![t] = [reads |-> {}, updates |-> {}, writes |-> {},
                                     exc |-> "none", after |-> tick[t].exc]]
    /\ UNCHANGED <<snapVars, confVars, config, state, halVars, is_running, sim_thread, stats,
                   adapter, link_read, prev_end, ticks_done>>

\* The loop test fails: the thread function returns.
ExitLoop(t) ==
    /\ threads[t].pc = "loop"
    /\ ~LoopCondition(is_running)
    /\ threads' = [threads EXCEPT ![t].pc = "dead"]
    /\ UNCHANGED <<snapVars, confVars, config, state, halVars, is_running, sim_thread, elapsed,
                   stats, adapter, histVars>>

\* simulator.read_inputs(self.gpio_driver, self.adc_drivers)
ReadStep(t) ==
    /\ threads[t].pc = "read"
    /\ LET i == simulators[threads[t].idx]
           r == ReadInputs(types[i], state[i], attrs[i], io_pins[i], pins, adc)
       IN  /\ state' = [state EXCEPT ![i] = r.st]
           /\ threads' = [threads EXCEPT ![t] = Proceed(t, r.exc)]
           /\ tick' = [tick EXCEPT ![t].reads = @ \cup {i},
                                   ![t].exc = IF r.exc THEN i ELSE @]
           /\ IF r.exc THEN EndOfTick(state') ELSE UNCHANGED <<prev_end, ticks_done>>
    /\ UNCHANGED <<snapVars, confVars, config, halVars, is_running, sim_thread, elapsed, stats,
                   adapter, link_read>>

\* Whether update, with result r, got as far as its get_linked_value call.
LinkWasRead(type, r) ==
    CASE type = "level" -> TRUE
      [] type = "pump" -> ~r.exc
      [] type = "flow" -> Has(r.st, {"start_enabled"}) /\ r.st.start_enabled
      [] OTHER -> FALSE

\* simulator.update(delta_time)
UpdateStep(t) ==
    /\ threads[t].pc = "update"
    /\ \E rnd \in RandomDraws :
       LET i == simulators[threads[t].idx]
           v == LinkedValue(state, i)
           r == Update(types[i], state[i], attrs[i], threads[t].delta_time, v, rnd)
       IN  /\ state' = [state EXCEPT ![i] = r.st]
           /\ threads' = [threads EXCEPT ![t] = Proceed(t, r.exc)]
           /\ tick' = [tick EXCEPT ![t].updates = @ \cup {i},
                                   ![t].exc = IF r.exc THEN i ELSE @]
           /\ link_read' = IF LinkWasRead(types[i], r)
                           THEN [link_read EXCEPT ![i] = v] ELSE link_read
           /\ IF r.exc THEN EndOfTick(state') ELSE UNCHANGED <<prev_end, ticks_done>>
    /\ UNCHANGED <<snapVars, confVars, config, halVars, is_running, sim_thread, elapsed, stats,
                   adapter>>

\* simulator.write_outputs(self.gpio_driver, self.dac_drivers)
WriteStep(t) ==
    /\ threads[t].pc = "write"
    /\ LET i == simulators[threads[t].idx]
           h == WriteOutputs(types[i], state[i], io_pins[i], pins, dac)
       IN  /\ pins' = h.pins
           /\ dac' = h.dac
           /\ threads' = [threads EXCEPT ![t] = Proceed(t, h.exc)]
           /\ tick' = [tick EXCEPT ![t].writes = @ \cup {i},
                                   ![t].exc = IF h.exc THEN i ELSE @]
           /\ IF h.exc THEN EndOfTick(state) ELSE UNCHANGED <<prev_end, ticks_done>>
    /\ UNCHANGED <<snapVars, confVars, config, state, adc, is_running, sim_thread, elapsed, stats,
                   adapter, link_read>>

\* The statistics at the end of the try block (total_updates, a counter no
\* operation reads, is kept as whether any tick has completed).
StatsStep(t) ==
    /\ threads[t].pc = "stats"
    /\ stats' = [ticked |-> TRUE,
                 update_rate |-> IF threads[t].delta_time > 0
                                 THEN 1000 \div threads[t].delta_time ELSE 0]
    /\ threads' = [threads EXCEPT ![t].pc = "sleep", ![t].idx = 0, ![t].delta_time = 0]
    /\ EndOfTick(state)
    /\ UNCHANGED <<snapVars, confVars, config, state, halVars, is_running, sim_thread, elapsed,
                   adapter, tick, link_read>>

\* time.sleep(max(0, update_interval - loop_duration)) returns: a nominal
\* period has passed since the iteration began.
Wake(t) ==
    /\ threads[t].pc = "sleep"
    /\ threads[t].aged
    /\ threads' = [threads EXCEPT ![t].pc = "loop", ![t].aged = FALSE]
    /\ UNCHANGED <<snapVars, confVars, config, state, halVars, is_running, sim_thread, elapsed,
                   stats, adapter, histVars>>

\* LevelSimulator.update gets past its first lines: the lock is taken, the
\* linked flow is read and new_volume and level_mm are computed.
LevelEnterOk(i) == Has(state[i], {"volume_m3"}) /\ attrs[i].tank_volume_m3 # 0

UpdateEnter(t) ==
    /\ threads[t].pc = "update"
    /\ LET i == simulators[threads[t].idx]
           v == LinkedValue(state, i)
       IN  /\ types[i] = "level"
           /\ LevelEnterOk(i)
           /\ upd[i].by = 0
           /\ upd' = [upd EXCEPT ![i] =
                         [by |-> t,
                          new_volume |-> LevelNewVolume(state[i], attrs[i],
                                                        threads[t].delta_time, v),
                          done |-> 0,
                          before |-> state[i]]]
           /\ link_read' = [link_read EXCEPT ![i] = v]
    /\ UNCHANGED <<confVars, config, state, halVars, engineVars, stats, adapter, tick,
                   prev_end, ticks_done, snap>>

\* The next of the four assignments to self.state in LevelSimulator.update;
\* after the last one, or when the third divides by zero, the lock is released.
UpdateAssign(t) ==
    /\ threads[t].pc = "update"
    /\ LET i == simulators[threads[t].idx]
           k == upd[i].done + 1
           raises == k = 3 /\ attrs[i].height_100_percent = 0
           last == k = 4 \/ raises
       IN  /\ upd[i].by = t
           /\ state' = IF raises THEN state
                       ELSE [state EXCEPT ![i] =
                               LevelAssignments(state[i], attrs[i], upd[i].new_volume, k)]
           /\ upd' = [upd EXCEPT ![i] = IF last THEN UpdIdle ELSE [@ EXCEPT !.done = k]]
           /\ threads' = IF last THEN [threads EXCEPT ![t] = Proceed(t, raises)]
                         ELSE threads
           /\ tick' = IF last
                       THEN [tick EXCEPT ![t].updates = @ \cup {i},
                                         ![t].exc = IF raises THEN i ELSE @]
                       ELSE tick
           /\ snap' = IF last /\ snap.pc = "reading" /\ snap.id = i
                       THEN [snap EXCEPT !.seen = @ \cup {state'[i]}] ELSE snap
           /\ IF raises THEN EndOfTick(state') ELSE UNCHANGED <<prev_end, ticks_done>>
    /\ UNCHANGED <<confVars, config, halVars, is_running, sim_thread, elapsed, stats,
                   adapter, link_read>>

\* simulator.update(delta_time), with the assignments of LevelSimulator.update
\* as separate steps.
UpdateStepFine(t) ==
    \/ /\ threads[t].pc = "update"
       /\ LET i == simulators[threads[t].idx]
          IN  /\ types[i] # "level" \/ ~LevelEnterOk(i)
              /\ upd[i].by = 0
       /\ UpdateStep(t)
    \/ UpdateEnter(t)
    \/ UpdateAssign(t)

WorkerStepFine(t) ==
    \/ BeginTick(t)
    \/ ExitLoop(t)
    \/ ReadStep(t)
    \/ UpdateStepFine(t)
    \/ WriteStep(t)
    \/ StatsStep(t)
    \/ Wake(t)

WorkerStep(t) ==
    \/ BeginTick(t)
    \/ ExitLoop(t)
    \/ ReadStep(t)
    \/ UpdateStep(t)
    \/ WriteStep(t)
    \/ StatsStep(t)
    \/ Wake(t)

\* One nominal period of wall-clock time passes.
Advance ==
    /\ elapsed \in 0..(MaxElapsed - 1)
    /\ elapsed' = elapsed + 1
    /\ threads' = [t \in Threads |->
                     IF threads[t].pc \in TickPhases \cup {"sleep"}
                     THEN [threads[t] EXCEPT !.aged = TRUE] ELSE threads[t]]
    /\ UNCHANGED <<snapVars, confVars, config, state, halVars, is_running, sim_thread, stats,
                   adapter, histVars>>

\* ------------------------------------------------- the adapter thread

Engine == [is_running |-> is_running, sim_thread |-> sim_thread,
           elapsed |-> elapsed, threads |-> threads]

Unborn(e) == {t \in Threads : e.threads[t].pc = "unborn"}

\* A start() without the `if self.is_running` guard.
StartEffectUnguarded(e) ==
    IF Unborn(e) = {} THEN e
    ELSE LET new == CHOOSE t \in Unborn(e) : \A u \in Unborn(e) : t <= u
         IN  [is_running |-> TRUE,
              sim_thread |-> new,
              elapsed |-> 0,
              threads |-> [e.threads EXCEPT ![new].pc = "loop"]]

\* SimulationEngine.start on the engine fields e.
StartEffect(e) ==
    IF e.is_running THEN e
    ELSE LET new == CHOOSE t \in Unborn(e) : \A u \in Unborn(e) : t <= u
         IN  [is_running |-> TRUE,
              sim_thread |-> new,
              elapsed |-> 0,
              threads |-> [e.threads EXCEPT ![new].pc = "loop"]]

\* SimulationEngine.stop on the engine fields e, up to the join.
StopEffect(e) ==
    IF ~e.is_running THEN e ELSE [e EXCEPT !.is_running = FALSE]

SetEngine(e) ==
    /\ is_running' = e.is_running
    /\ sim_thread' = e.sim_thread
    /\ elapsed' = e.elapsed
    /\ threads' = e.threads

Start ==
    /\ adapter.pc = "idle"
    /\ is_running \/ Unborn(Engine) # {}
    /\ SetEngine(StartEffect(Engine))
    /\ UNCHANGED <<snapVars, confVars, config, state, halVars, stats, adapter, histVars>>

\* stop(): the flag is cleared and the caller waits in join(timeout=2.0).
StopBegin ==
    /\ adapter.pc = "idle"
    /\ SetEngine(StopEffect(Engine))
    /\ adapter' = [adapter EXCEPT !.pc = IF is_running /\ sim_thread # 0
                                         THEN "joining" ELSE "idle"]
    /\ UNCHANGED <<snapVars, confVars, config, state, halVars, stats, histVars>>

\* join returns because the worker has ended.
StopJoined ==
    /\ adapter.pc = "joining"
    /\ threads[sim_thread].pc = "dead"
    /\ adapter' = [adapter EXCEPT !.pc = "idle"]
    /\ UNCHANGED <<snapVars, confVars, config, state, halVars, engineVars, stats, histVars>>

\* join returns after 2 s although the worker is still inside a tick.
StopTimedOut ==
    /\ adapter.pc = "joining"
    /\ threads[sim_thread].pc \in TickPhases
    /\ adapter' = [adapter EXCEPT !.pc = "idle"]
    /\ elapsed' = MaxElapsed
    /\ threads' = [t \in Threads |->
                     IF threads[t].pc \in TickPhases \cup {"sleep"}
                     THEN [threads[t] EXCEPT !.aged = TRUE] ELSE threads[t]]
    /\ UNCHANGED <<snapVars, confVars, config, state, halVars, is_running, sim_thread, stats,
                   histVars>>

\* BaseSimulator.reset
ResetEffect(st) == EmptyDict

Reset(i) ==
    /\ adapter.pc = "idle"
    /\ state' = [state EXCEPT ![i] = ResetEffect(state[i])]
    /\ UNCHANGED <<snapVars, confVars, config, halVars, engineVars, stats, adapter,
                   histVars>>

\* BaseSimulator.set_parameter on the parameter dictionary cfg and the
\* attributes at: [config, attrs] afterwards.
SetParameterEffect(cfg, at, param_name, value) ==
    IF param_name \in DOMAIN cfg
    THEN [config |-> [cfg EXCEPT ![param_name] = value], attrs |-> at]
    ELSE [config |-> cfg, attrs |-> at]

\* The parameter names and values the adapter sends.
ParamChoices == {<<"open_speed_sec", 100>>, <<"ramp_time_sec", 100>>}

SetParameter(i, c) ==
    /\ adapter.pc = "idle"
    /\ LET r == SetParameterEffect(config[i], attrs[i], c[1], c[2])
       IN  /\ config' = [config EXCEPT ![i] = r.config]
           /\ attrs' = [attrs EXCEPT ![i] = r.attrs]
    /\ UNCHANGED <<snapVars, simulators, types, io_pins, linked_instruments, loadVars, state, halVars,
                   engineVars, stats, adapter, histVars>>

\* The levels the adapter sets: below 0 %, half full and above 100 %.
LevelChoices == {-5000, 5000, 15000}

\* set_level_percent(percent) on a level instrument; it holds the update_lock.
SetLevelPercent(i, percent) ==
    /\ adapter.pc = "idle"
    /\ types[i] = "level"
    /\ state' = [state EXCEPT ![i] = SetLevelPercentEffect(state[i], attrs[i], percent)]
    /\ UNCHANGED <<snapVars, confVars, config, halVars, engineVars, stats, adapter,
                   histVars>>

\* round(x, ndigits) on a value kept in units of 10^-d: to the nearest
\* multiple of m = 10^(d - ndigits), a tie going to the even multiple.
RoundTo(x, m) ==
    LET q == x \div m
        r == x % m
    IN  IF 2 * r < m THEN q * m
        ELSE IF 2 * r > m THEN (q + 1) * m
        ELSE IF q % 2 = 0 THEN q * m ELSE (q + 1) * m

\* get_display_data of the level and the flow meter: the state keys in the
\* order they are read, and what is returned for each.
DisplayFields(type) ==
    CASE type = "level" -> <<"level_mm", "level_percent", "volume_m3", "hh_alarm">>
      [] type = "flow" -> <<"flow_lpm", "total_volume_liters", "total_mass_kg",
                            "pulse_count", "start_enabled">>
      [] OTHER -> << >>
DisplayValue(key, v) ==
    CASE key = "level_mm" -> RoundTo(v, 1)
      [] key = "level_percent" -> RoundTo(v, 10)
      [] key = "volume_m3" -> RoundTo(v, 1000)
      [] key = "flow_lpm" -> RoundTo(v, 1)
      [] key = "total_volume_liters" -> RoundTo(v, 10)
      [] key = "total_mass_kg" -> RoundTo(v, 10)
      [] OTHER -> v

\* get_display_data on the state st, read in one piece.
GetDisplayData(type, st) ==
    LET f == DisplayFields(type)
    IN  IF \E n \in 1..Len(f) : f[n] \notin DOMAIN st THEN [error |-> TRUE]
        ELSE [k \in {f[n] : n \in 1..Len(f)} |-> DisplayValue(k, st[k])]

\* GET /api/data/{id}: get_display_data begins; it takes no lock.
SnapBegin(i) ==
    /\ adapter.pc = "idle"
    /\ snap.pc = "idle"
    /\ types[i] = "level"
    /\ snap' = [pc |-> "reading", id |-> i, k |-> 0, data |-> EmptyDict,
                seen |-> {IF upd[i].by = 0 THEN state[i] ELSE upd[i].before}]
    /\ adapter' = [adapter EXCEPT !.pc = "display"]
    /\ UNCHANGED <<confVars, config, state, halVars, engineVars, stats, histVars, upd>>

\* get_display_data reads the next key of self.state.
SnapRead ==
    /\ snap.pc = "reading"
    /\ LET f == DisplayFields(types[snap.id])
           key == f[snap.k + 1]
       IN  snap' = IF key \notin DOMAIN state[snap.id]
                   THEN [snap EXCEPT !.pc = "done", !.data = [error |-> TRUE]]
                   ELSE [snap EXCEPT
                           !.pc = IF snap.k + 1 = Len(f) THEN "done" ELSE "reading",
                           !.k = snap.k + 1,
                           !.data = Assign(snap.data, key,
                                           DisplayValue(key, state[snap.id][key]))]
    /\ UNCHANGED <<confVars, config, state, halVars, engineVars, stats, adapter,
                   histVars, upd>>

\* The response is sent.
SnapReturn ==
    /\ snap.pc = "done"
    /\ snap' = SnapIdle
    /\ adapter' = [adapter EXCEPT !.pc = "idle"]
    /\ UNCHANGED <<confVars, config, state, halVars, engineVars, stats, histVars, upd>>

\* ------------------------------------------------- the environment (PLC)

AdcLevels == {0, 10000}
\* The voltages a channel can return beyond the nominal 0-10 V.
AdcRange == {-2000, 0, 10000, 12000}

\* The PLC drives an input pin.
EnvPin(p) ==
    /\ pins[p].mode = "input"
    /\ pins' = [pins EXCEPT ![p].value = ~@]
    /\ UNCHANGED <<snapVars, confVars, config, state, adc, dac, engineVars, stats, adapter, histVars>>

\* The PLC drives an analog input that some instrument samples.
AdcInputs == {<<q.i2c_address, ChannelOr0(q.channel)>> :
                q \in {x \in IoPinsOf(io_pins) :
                         /\ x.pin_type = "analog_in"
                         /\ x.i2c_address # NoneVal
                         /\ AdcChannelOk(ChannelOr0(x.channel))}}
EnvAdc(a, v) ==
    /\ adc[a[1]][a[2] + 1] # v
    /\ adc' = [adc EXCEPT ![a[1]][a[2] + 1] = v]
    /\ UNCHANGED <<snapVars, confVars, config, state, pins, dac, engineVars, stats, adapter, histVars>>

\* The engine: the worker threads, the clock and the life cycle calls.
EngineNext ==
    \/ \E t \in Threads : WorkerStep(t)
    \/ Advance
    \/ Start
    \/ StopBegin
    \/ StopJoined
    \/ StopTimedOut

\* The engine in runs whose ticks are short, so that the join in stop()
\* returns because the worker has ended.
JoinedNext ==
    \/ \E t \in Threads : WorkerStep(t)
    \/ Advance
    \/ Start
    \/ StopBegin
    \/ StopJoined

\* The engine once started, as long as stop() is not called.
RunNext ==
    \/ \E t \in Threads : WorkerStep(t)
    \/ Advance
    \/ Start

Next ==
    \/ JoinedNext
    \/ \E p \in DOMAIN pins : EnvPin(p)
    \/ \E a \in AdcInputs, v \in AdcLevels : EnvAdc(a, v)

\* The engine with the PLC driving the inputs.
Spec == Init /\ [][Next]_vars

\* The engine's life cycle over idle instruments.
SpecLife == InitLife /\ [][EngineNext]_vars

\* The engine with the adapter resetting instruments.
NextFault ==
    \/ EngineNext
    \/ \E i \in Ids : Reset(i)

SpecFault == InitFault /\ [][NextFault]_vars

\* The threads are scheduled and the clock runs: a worker that can take a step
\* eventually takes it.
Fairness ==
    /\ \A t \in 1..SimThreads : WF_vars(WorkerStep(t))
    /\ WF_vars(Advance)

\* The same over a single instrument, with the threads scheduled.
SpecFaultFair == InitFair /\ [][NextFault]_vars /\ Fairness

\* The engine with the PLC driving the inputs and the adapter setting
\* parameters.
NextParam ==
    \/ JoinedNext
    \/ \E a \in AdcInputs, v \in AdcLevels : EnvAdc(a, v)
    \/ \E i \in Ids, c \in ParamChoices : SetParameter(i, c)

SpecParam == InitParam /\ [][NextParam]_vars

\* The engine, with LevelSimulator.update and get_display_data taken one
\* state access at a time, and the PLC driving the inputs.
NextSnap ==
    \/ \E t \in Threads : WorkerStepFine(t)
    \/ Advance
    \/ Start
    \/ StopBegin
    \/ StopJoined
    \/ StopTimedOut
    \/ \E p \in DOMAIN pins : EnvPin(p)
    \/ \E i \in Ids : SnapBegin(i)
    \/ SnapRead
    \/ SnapReturn

SpecSnap == InitSnap /\ [][NextSnap]_vars

\* The engine over a pump and a flow meter, with the PLC driving the inputs.
NextFlow ==
    \/ JoinedNext
    \/ \E p \in DOMAIN pins : EnvPin(p)

SpecFlow == InitFlow /\ [][NextFlow]_vars

\* The engine over a regulating valve and a pump, with the PLC driving the
\* inputs over the whole range of the converter.
NextPump ==
    \/ RunNext
    \/ \E p \in DOMAIN pins : EnvPin(p)
    \/ \E a \in AdcInputs, v \in AdcRange : EnvAdc(a, v)

SpecPump == InitPump /\ [][NextPump]_vars

\* The engine over a valve and a regulating valve, with the PLC driving the
\* inputs over the whole range of the converter.
NextValves ==
    \/ RunNext
    \/ \E p \in DOMAIN pins : EnvPin(p)
    \/ \E a \in AdcInputs, v \in AdcRange : EnvAdc(a, v)

SpecValves == InitValves /\ [][NextValves]_vars

\* The pins the instruments read as their hold inputs.
HoldPins == {io_pins[i]["hold_input"].pin_number :
                i \in {j \in Ids : "hold_input" \in DOMAIN io_pins[j]}}

\* The PLC changes a command between the read phases of two ticks, so that
\* every instrument that samples the pin in a tick reads the same value.
EnvPinBetweenReads(p) ==
    /\ \A t \in Threads : threads[t].pc # "read"
    /\ EnvPin(p)

\* The engine over two valves that share their open and close commands; the
\* hold inputs change at any time.
NextHold ==
    \/ RunNext
    \/ \E p \in (DOMAIN pins) \ HoldPins : EnvPinBetweenReads(p)
    \/ \E p \in HoldPins : EnvPin(p)

SpecHold == InitHold /\ [][NextHold]_vars

\* The setpoints the PLC sends to the valve with the 20 % minimum: 0, 10 %
\* and 50 %.
MinPosLevels == {0, 1000, 5000}

\* The engine over a regulating valve with the 20 % minimum, the threads being
\* scheduled.
NextMinPos ==
    \/ RunNext
    \/ \E a \in AdcInputs, v \in MinPosLevels : EnvAdc(a, v)

SpecMinPos == InitMinPos /\ [][NextMinPos]_vars /\ Fairness

\* The currents handed to set_current_ma, in microamperes: from -1 mA in
\* steps of 0.1 mA.
Currents == {100 * k : k \in (-10)..MaxCurrent}

\* dac_drivers[a].set_current_ma(current_ma)
DacSetCurrent(a, current_ma) ==
    /\ dac' = [dac EXCEPT ![a] = SetCurrentMa(current_ma)]
    /\ UNCHANGED <<snapVars, confVars, config, state, pins, adc, engineVars, stats,
                   adapter, histVars>>

\* The DAC driver on its own.
NextDac == \E a \in DOMAIN dac, current_ma \in Currents : DacSetCurrent(a, current_ma)

SpecDac == InitDac /\ [][NextDac]_vars

\* The engine over a tank truck interlock, with the PLC driving the inputs.
NextTankbil ==
    \/ RunNext
    \/ \E p \in DOMAIN pins : EnvPin(p)

SpecTankbil == InitTankbil /\ [][NextTankbil]_vars

\* The engine over a pump and a flow meter once started, with the PLC driving
\* the inputs.
NextMeter ==
    \/ RunNext
    \/ \E p \in DOMAIN pins : EnvPin(p)

SpecMeter == InitMeter /\ [][NextMeter]_vars

\* The engine over a pump and a tank, with the PLC driving the inputs and the
\* adapter setting the level.
NextLevel ==
    \/ JoinedNext
    \/ \E p \in DOMAIN pins : EnvPin(p)
    \/ \E i \in Ids, percent \in LevelChoices : SetLevelPercent(i, percent)

SpecLevel == InitLevel /\ [][NextLevel]_vars

\* ------------------------------------------------------------ properties

\* Thread t has just returned from (or raised in) a callback of phase ph.
Called(t, ph) ==
    /\ threads[t].pc = ph
    /\ threads'[t].pc # ph \/ threads'[t].idx # threads[t].idx

\* C1: within a tick, update is called on an instrument only after read_inputs
\* has been called on every instrument, and write_outputs only after update
\* has been called on every instrument.
C1_PhasesInOrder ==
    \A t \in Threads :
        /\ tick[t].updates # {} => tick[t].reads = Ids
        /\ tick[t].writes # {} => tick[t].updates = Ids

\* A tick that has gone through all three loops.
C1_Witness ==
    \E t \in Threads :
        threads[t].pc = "stats" /\ tick[t].writes = Ids /\ Len(simulators) > 1

\* The instrument that update(i) reads through its link, if it has one.
HasLink(i) == LinkName(types[i]) \in DOMAIN linked_instruments[i]
LinkTarget(i) == linked_instruments[i][LinkName(types[i])]

\* The value instrument j offers to update(i) in the states sts.
Offered(sts, i) ==
    IF LinkKey(types[i]) \in DOMAIN sts[LinkTarget(i)]
    THEN sts[LinkTarget(i)][LinkKey(types[i])] ELSE NoneVal

\* C2 as stated: the value update reads through get_linked_value is the linked
\* instrument's value at the end of the previous tick, whatever the order.
C2_ReadsPreviousTick ==
    [][\A t \in Threads :
          (Called(t, "update") /\ ticks_done) =>
              LET i == simulators[threads[t].idx]
              IN  (HasLink(i) /\ ~tick'[t].exc = i) =>
                      link_read'[i] = Offered(prev_end, i)]_vars

\* C2 amended: the value update reads through get_linked_value is the linked
\* instrument's state at the time of the call; the linked instrument has
\* already been updated in this tick exactly if it comes earlier in the
\* dictionary order.
C2_ReadsLiveState ==
    [][\A t \in Threads :
          Called(t, "update") =>
              LET i == simulators[threads[t].idx]
              IN  (HasLink(i) /\ ~tick'[t].exc = i) =>
                      /\ link_read'[i] = Offered(state, i)
                      /\ LinkTarget(i) \in tick[t].updates <=> Pos(LinkTarget(i)) < Pos(i)]_vars

\* The pump has read a back-pressure that the valve did not have when the
\* previous tick ended.
C2_Witness ==
    /\ ticks_done
    /\ \E t \in Threads :
          /\ threads[t].pc \in {"update", "write"}
          /\ "pump1" \in tick[t].updates
          /\ link_read["pump1"] # Offered(prev_end, "pump1")

\* C3 as stated: at most one worker thread executes the loop, whatever calls
\* of start() and stop() came before.
C3_OneWorker == Cardinality({t \in Threads : Alive(t)}) <= 1

\* C4: start() on a running engine and stop() on a stopped engine change
\* nothing, and a second start() or stop() in a row changes nothing.
C4_Idempotent ==
    /\ is_running => StartEffect(Engine) = Engine
    /\ ~is_running => StopEffect(Engine) = Engine
    /\ Unborn(Engine) # {} => StartEffect(StartEffect(Engine)) = StartEffect(Engine)
    /\ StopEffect(StopEffect(Engine)) = StopEffect(Engine)

\* start() has been called on a running engine that could still get a thread.
C4_Witness ==
    /\ is_running
    /\ Unborn(Engine) # {}
    /\ \E t \in Threads : threads[t].pc \in TickPhases

\* C5: once is_running is false a worker begins no tick, and unless start()
\* is called every worker ends.
C5_StopEnds ==
    /\ [][\A t \in Threads :
            (threads[t].pc = "loop" /\ threads'[t].pc \in TickPhases) => is_running]_vars
    /\ (~is_running) ~> (is_running \/ \A t \in 1..SimThreads : ~Alive(t))

\* stop() has returned and the worker it stopped has ended.
C5_Witness ==
    /\ ~is_running
    /\ adapter.pc = "idle"
    /\ \E t \in Threads : threads[t].pc = "dead"

\* C6: an exception in a callback does not end the worker: a worker ends only
\* at the loop test with is_running false, and after a tick that raised the
\* worker begins another tick unless is_running is set to false.
C6_WorkerSurvives ==
    /\ [][\A t \in Threads :
            (Alive(t) /\ threads'[t].pc = "dead") =>
                (threads[t].pc = "loop" /\ ~is_running)]_vars
    /\ \A t \in 1..SimThreads :
          (threads[t].pc = "sleep" /\ tick[t].exc # "none")
              ~> (~is_running \/ threads[t].pc \in TickPhases)

\* A worker is inside the tick that follows a tick in which a callback raised.
C6_Witness ==
    \E t \in Threads : threads[t].pc \in TickPhases /\ tick[t].after # "none"

\* C7 as stated: when a callback of one instrument raises, all three callbacks
\* of every other instrument are still called in that tick.
C7_OthersUnaffected ==
    \A t \in Threads :
        (threads[t].pc = "sleep" /\ tick[t].exc # "none") =>
            \A j \in Ids \ {tick[t].exc} :
                j \in tick[t].reads /\ j \in tick[t].updates /\ j \in tick[t].writes

\* C8 as stated: the display data returned for an instrument are those of one
\* state the instrument had between two updates, never a mix of fields from
\* before and after an update.
C8_SnapshotConsistent ==
    snap.pc = "done" =>
        snap.data \in {GetDisplayData(types[snap.id], s) : s \in snap.seen}

\* C9 as stated: every instrument's state has every documented key.
C9_KeysPresent ==
    \A i \in Ids : DOMAIN InitState(types[i]) \subseteq DOMAIN state[i]

\* C10 as stated: after set_parameter, update works with the parameter values
\* of the parameter dictionary.
C10_UpdateUsesNewValue ==
    [][\A t \in Threads :
          Called(t, "update") =>
              LET i == simulators[threads[t].idx]
              IN  \E rnd \in RandomDraws :
                      state'[i] = Update(types[i], state[i],
                                         LoadConfig(types[i], config[i]),
                                         threads[t].delta_time,
                                         LinkedValue(state, i), rnd).st]_vars

\* The flow meters.
FlowIds == {i \in Ids : types[i] = "flow"}

\* C11 as stated: after an update with start_enabled, no whole pulse is left
\* in the accumulator (every pulse accrued in the tick has been counted).
C11_AllPulsesEmitted ==
    [][\A t \in Threads :
          Called(t, "update") =>
              LET i == simulators[threads[t].idx]
              IN  (types[i] = "flow" /\ state[i].start_enabled /\ tick'[t].exc # i) =>
                      state'[i].pulse_accumulator < 1000]_vars

\* The (pulse_a, pulse_b) pair of an instrument state.
PulsePair(st) == <<st.pulse_a, st.pulse_b>>

\* The pair that follows a pair in the cycle (1,0), (1,1), (0,1), (0,0).
GrayNext(pair) ==
    CASE pair = <<TRUE, FALSE>> -> <<TRUE, TRUE>>
      [] pair = <<TRUE, TRUE>> -> <<FALSE, TRUE>>
      [] pair = <<FALSE, TRUE>> -> <<FALSE, FALSE>>
      [] OTHER -> <<TRUE, FALSE>>

\* C12 as stated: whenever the (pulse_a, pulse_b) pair of a quadrature flow
\* meter changes, the new pair is the one that follows the old pair in the
\* Gray cycle (so the two pairs differ in one bit).
C12_GrayCycle ==
    [][\A i \in FlowIds :
          (/\ attrs[i].pulse_type = "quadrature"
           /\ Has(state[i], {"pulse_a", "pulse_b"})
           /\ Has(state'[i], {"pulse_a", "pulse_b"})
           /\ PulsePair(state'[i]) # PulsePair(state[i])) =>
              PulsePair(state'[i]) = GrayNext(PulsePair(state[i]))]_vars

\* The totals of a flow meter.
FlowTotals == {"total_volume_liters", "total_mass_kg", "pulse_count", "pulse_accumulator"}

\* C13 as stated: an update of a flow meter whose reset_cmd is true leaves the
\* totals and counters at 0 and reset_cmd cleared, and the display data taken
\* afterwards report zero totals, whether or not start_enabled is true.
C13_ResetZeroes ==
    [][\A t \in Threads :
          Called(t, "update") =>
              LET i == simulators[threads[t].idx]
              IN  (types[i] = "flow" /\ state[i].reset_cmd) =>
                      /\ \A k \in FlowTotals : state'[i][k] = 0
                      /\ ~state'[i].reset_cmd
                      /\ LET data == GetDisplayData("flow", state'[i])
                         IN  /\ data.total_volume_liters = 0
                             /\ data.total_mass_kg = 0
                             /\ data.pulse_count = 0]_vars

\* The level instruments.
LevelIds == {i \in Ids : types[i] = "level"}

\* C14 as stated: after every update of a level instrument level_percent is
\* between 0 and 100, for every positive tank_height_mm, height_100_percent
\* and tank_volume_m3.
C14_LevelPercentInRange ==
    [][\A t \in Threads :
          Called(t, "update") =>
              LET i == simulators[threads[t].idx]
              IN  (types[i] = "level" /\ tick'[t].exc # i) =>
                      state'[i].level_percent \in 0..10000]_vars

\* C17 as stated: the volume of a level instrument is between 0 and the
\* tank's volume after every update and every set_level_percent.
C17_VolumeInRange ==
    \A i \in LevelIds :
        Has(state[i], {"volume_m3"}) => state[i].volume_m3 \in 0..attrs[i].tank_volume_m3

\* The pumps.
PumpIds == {i \in Ids : types[i] = "pump"}

\* C15 as stated: the speed of a pump is between 0 and 100 % after every
\* tick, in digital and in analog mode, for every voltage on speed_input.
C15_SpeedInRange ==
    \A i \in PumpIds :
        Has(state[i], {"current_speed_percent"}) =>
            state[i].current_speed_percent \in 0..10000

\* C18: the pressure of a pump is between 0 and max_pressure_bar and its flow
\* between 0 and max_flow_lpm after every update, for every command and every
\* back-pressure.
C18_PressureFlowInRange ==
    \A i \in PumpIds :
        Has(state[i], {"pressure_bar", "flow_lpm"}) =>
            /\ state[i].pressure_bar \in 0..attrs[i].max_pressure_bar
            /\ state[i].flow_lpm \in 0..attrs[i].max_flow_lpm

\* A pump driven above 100 % against a back-pressure: its update has cut the
\* pressure to the maximum, and the flow is positive.
C18_Witness ==
    \E i \in PumpIds :
        /\ state[i].current_speed_percent > 10000
        /\ link_read[i] > 0
        /\ state[i].pressure_bar = attrs[i].max_pressure_bar
        /\ state[i].flow_lpm > 0

\* The valves and the regulating valves.
ValveIds == {i \in Ids : types[i] = "valve"}
RegValveIds == {i \in Ids : types[i] = "reg_valve"}

\* The positions and setpoints are between 0 and 100 %.
PositionsInRange ==
    /\ \A i \in ValveIds \cup RegValveIds :
          Has(state[i], {"position_percent"}) => state[i].position_percent \in 0..10000
    /\ \A i \in RegValveIds :
          Has(state[i], {"setpoint_percent"}) => state[i].setpoint_percent \in 0..10000

\* The update of valve i with delta time dt takes the valve from st to
\* exactly 100 % (0 %) when it opens (closes) for at least the full period.
ValveLands(i, st, dt, new) ==
    LET held == st.hold_cmd /\ attrs[i].has_hold_solenoid
        opens == ~held /\ st.open_cmd /\ ~st.close_cmd
        closes == ~held /\ ~st.open_cmd /\ (st.close_cmd \/ attrs[i].has_return_spring)
    IN  /\ (opens /\ dt >= attrs[i].open_speed_sec) => new.position_percent = 10000
        /\ (closes /\ dt >= attrs[i].close_speed_sec) => new.position_percent = 0

\* The same for the regulating valve i, whose setpoint is 100 % (0 %).
RegValveLands(i, st, dt, new) ==
    /\ (~st.hold_cmd /\ st.setpoint_percent = 10000 /\ dt >= attrs[i].open_speed_sec)
          => new.position_percent = 10000
    /\ (~st.hold_cmd /\ st.setpoint_percent = 0 /\ dt >= attrs[i].close_speed_sec)
          => new.position_percent = 0

TankbilIds == {i \in Ids : types[i] = "tankbil"}

\* C19: after every update of a tank truck interlock, system_safe is
\* ground_ok and overfill_ok and (deadman disabled or deadman_timer < 5 s);
\* with the deadman disabled, deadman_warning is false and deadman_timer is 0.
C19_SystemSafe ==
    [][\A t \in Threads :
          Called(t, "update") =>
              LET i == simulators[threads[t].idx]
                  new == state'[i]
              IN  (i \in TankbilIds /\ tick'[t].exc # i) =>
                      /\ new.system_safe <=>
                            (/\ new.ground_ok
                             /\ new.overfill_ok
                             /\ (~attrs[i].deadman_enabled \/ new.deadman_timer < 5000))
                      /\ ~attrs[i].deadman_enabled =>
                            (~new.deadman_warning /\ new.deadman_timer = 0)]_vars

\* Grounded and not overfilled, but the deadman has been released for 5 s: the
\* update has withdrawn system_safe.
C19_Witness ==
    \E i \in TankbilIds :
        /\ attrs[i].deadman_enabled
        /\ state[i].ground_ok /\ state[i].overfill_ok
        /\ state[i].deadman_timer >= 5000
        /\ ~state[i].system_safe

\* C20: with the deadman enabled and ground and overfill OK, an update with
\* the deadman released adds the delta time to deadman_timer, and afterwards
\* deadman_warning is true exactly if more than 2 s have accumulated and
\* system_safe is false exactly if 5 s have accumulated (so both stay until a
\* press); an update with the deadman pressed leaves deadman_timer 0,
\* deadman_warning false and system_safe true.
C20_Deadman ==
    [][\A t \in Threads :
          Called(t, "update") =>
              LET i == simulators[threads[t].idx]
                  old == state[i]
                  new == state'[i]
                  dt == threads[t].delta_time
              IN  (/\ i \in TankbilIds
                   /\ tick'[t].exc # i
                   /\ attrs[i].deadman_enabled
                   /\ old.ground_ok /\ old.overfill_ok) =>
                      IF old.deadman_pressed
                      THEN new.deadman_timer = 0 /\ ~new.deadman_warning /\ new.system_safe
                      ELSE /\ new.deadman_timer = old.deadman_timer + dt
                           /\ new.deadman_warning <=> new.deadman_timer > 2000
                           /\ new.system_safe <=> new.deadman_timer < 5000
                           /\ old.deadman_warning => new.deadman_warning
                           /\ (~old.system_safe /\ old.deadman_timer >= 5000)
                                 => ~new.system_safe]_vars

\* The deadman was pressed after the warning had come on: the update has reset
\* the timer, with system_safe true, while the warning output still shows the
\* warning of the tick before.
C20_Witness ==
    \E i \in TankbilIds, t \in Threads :
        /\ threads[t].pc = "write"
        /\ state[i].deadman_pressed
        /\ state[i].deadman_timer = 0
        /\ ~state[i].deadman_warning
        /\ state[i].system_safe
        /\ stats.ticked
        /\ pins[5].value

\* C21: two valves without hold solenoid that get the same open and close
\* commands and the same delta times, but different hold inputs, have the
\* same position_percent and status after every tick (and whenever both have
\* been updated equally often).
C21_HoldIgnored ==
    (\A t \in Threads : ~(threads[t].pc = "update" /\ threads[t].idx = 2)) =>
        /\ state["valve1"].position_percent = state["valve2"].position_percent
        /\ state["valve1"].status = state["valve2"].status

\* Both valves are half way, after a tick in which only one of them had its
\* hold input high.
C21_Witness ==
    /\ \E t \in Threads : threads[t].pc = "sleep"
    /\ pins[24].value /\ ~pins[25].value
    /\ state["valve1"].position_percent \in 1..9999
    /\ state["valve1"].status = "opening"
    /\ state["valve2"].status = "opening"

\* The position after a ramp step of delta time dt from position pos towards
\* target, the travel of 100 % taking the times open and close.
RampTowards(pos, target, dt, open, close) ==
    IF pos < target THEN Min(target, pos + (10000 * dt) \div open)
    ELSE IF pos > target THEN Max(target, pos - (10000 * dt) \div close)
    ELSE pos

\* C22: a regulating valve with the 20 % minimum and hold_cmd false ramps
\* towards max(20, setpoint) when the setpoint is above 0 and towards 0 when
\* it is 0; while the setpoint stays 0 the position eventually is 0 and stays,
\* and while it stays at 10 % the position eventually is 20 % and stays.
C22_MinPosition ==
    /\ [][\A t \in Threads :
            Called(t, "update") =>
                LET i == simulators[threads[t].idx]
                    raw == state[i].setpoint_percent
                IN  (/\ i \in RegValveIds
                     /\ attrs[i].min_position_20_pct
                     /\ ~state[i].hold_cmd
                     /\ tick'[t].exc # i) =>
                        state'[i].position_percent =
                            RampTowards(state[i].position_percent,
                                        IF raw > 0 THEN Max(2000, raw) ELSE 0,
                                        threads[t].delta_time,
                                        attrs[i].open_speed_sec,
                                        attrs[i].close_speed_sec)]_vars
    /\ \A i \in {"rv1"} :
          /\ <>[](state[i].setpoint_percent = 0) => <>[](state[i].position_percent = 0)
          /\ <>[](state[i].setpoint_percent = 1000)
                => <>[](state[i].position_percent = 2000)

\* The valve is sent 10 % and an update has left it at 20 %.
C22_Witness ==
    /\ attrs["rv1"].min_position_20_pct
    /\ state["rv1"].setpoint_percent = 1000
    /\ state["rv1"].position_percent = 2000
    /\ \E t \in Threads : threads[t].pc = "write" /\ threads[t].delta_time > 0

\* C23: set_current_ma(x) gives the code of set_current_ma(clamp(x, 4, 20)):
\* 0 for every x <= 4 mA, 4095 for every x >= 20 mA, a code within 0..4095
\* in between, and never a lower code for a higher current.
C23_CurrentClamped ==
    /\ \A a \in DOMAIN dac : dac[a] \in 0..4095
    /\ \A x \in Currents :
          /\ SetCurrentMa(x) = SetCurrentMa(Max(4000, Min(20000, x)))
          /\ x <= 4000 => SetCurrentMa(x) = 0
          /\ x >= 20000 => SetCurrentMa(x) = 4095
          /\ SetCurrentMa(x) \in 0..4095
          /\ (x + 100) \in Currents => SetCurrentMa(x) <= SetCurrentMa(x + 100)

\* The converter holds full scale after a current above 20 mA was set.
C23_Witness ==
    \E a \in DOMAIN dac : dac[a] = SetCurrentMa(100 * MaxCurrent) /\ dac[a] = 4095

\* C24: an update of a flow meter with start_enabled adds flow_lpm * delta
\* time / 60 to total_volume_liters, or leaves 0 when it processes a reset;
\* an update without start_enabled leaves the total as it is; after every
\* update total_mass_kg equals total_volume_liters.
C24_VolumeIsSum ==
    [][\A t \in Threads :
          Called(t, "update") =>
              LET i == simulators[threads[t].idx]
                  old == state[i]
                  new == state'[i]
              IN  (i \in FlowIds /\ tick'[t].exc # i) =>
                      /\ new.total_volume_liters =
                            IF ~old.start_enabled THEN old.total_volume_liters
                            ELSE IF old.reset_cmd THEN 0
                            ELSE old.total_volume_liters
                                   + (new.flow_lpm * threads[t].delta_time) \div 6000
                      /\ new.total_mass_kg = new.total_volume_liters]_vars

\* The meter has counted 0.2 L in two ticks at 60 L/min.
C24_Witness ==
    \E i \in FlowIds :
        /\ state[i].start_enabled
        /\ state[i].flow_lpm = 6000
        /\ state[i].total_volume_liters = 200
        /\ state[i].total_mass_kg = 200

\* C25: an update of a flow meter with start_enabled that does not process a
\* reset never leaves a lower pulse_count, and between updates pulse_count
\* does not change.
C25_CountMonotone ==
    [][\A i \in FlowIds :
          state'[i].pulse_count < state[i].pulse_count =>
              \E t \in Threads :
                  /\ Called(t, "update")
                  /\ simulators[threads[t].idx] = i
                  /\ state[i].start_enabled
                  /\ state[i].reset_cmd]_vars

\* The meter has counted pulses in consecutive ticks without a reset.
C25_Witness ==
    \E i \in FlowIds :
        /\ state[i].start_enabled
        /\ ~state[i].reset_cmd
        /\ state[i].pulse_count >= 2

\* --------------------------------------------- provisioning the hardware

\* A regulating valve and a pump whose IOPins use a pin of each kind.
CfgHw ==
    [CfgValvePump(<<"rv1", "pump1">>) EXCEPT
        !.io.pump1 = [enable_input |-> IOPin("digital_in", 17, NoneVal, NoneVal),
                      running_output |-> IOPin("digital_out", 27, NoneVal, NoneVal),
                      feedback_output |-> IOPin("analog_out", NoneVal, 96, NoneVal)]]

\* The engine as constructed: initialize_hardware() has not been called, so
\* MockGPIO.pins, dac_drivers and adc_drivers are empty.
InitHw ==
    /\ Constructed(CfgHw, SimThreads)
    /\ pins = EmptyDict
    /\ adc = EmptyDict
    /\ dac = EmptyDict

\* d with the entries of new put in (or put in again).
Provision(d, new) ==
    [k \in DOMAIN d \cup DOMAIN new |-> IF k \in DOMAIN new THEN new[k] ELSE d[k]]

\* SimulationEngine.initialize_hardware: every pin the IOPins name is set up
\* (again, with value 0), and a new driver is stored for every address.
InitializeHardware ==
    /\ adapter.pc = "idle"
    /\ pins' = Provision(pins, HwPins(io_pins))
    /\ adc' = Provision(adc, HwAdc(io_pins))
    /\ dac' = Provision(dac, HwDac(io_pins))
    /\ UNCHANGED <<snapVars, confVars, config, state, engineVars, stats, adapter, histVars>>

\* A cleanup that leaves the pins set up.
GpioCleanupKeeps == pins

\* GPIODriver.cleanup: MockGPIO.pins.clear(). dac_drivers and adc_drivers
\* are not touched.
GpioCleanup == EmptyDict

\* SimulationEngine.cleanup: stop(), then gpio_driver.cleanup(). The caller
\* waits in the join of stop() when a worker runs.
CleanupBegin ==
    /\ adapter.pc = "idle"
    /\ SetEngine(StopEffect(Engine))
    /\ IF is_running /\ sim_thread # 0
       THEN /\ adapter' = [adapter EXCEPT !.pc = "cleanup_joining"]
            /\ pins' = pins
       ELSE /\ adapter' = adapter
            /\ pins' = GpioCleanup
    /\ UNCHANGED <<snapVars, confVars, config, state, adc, dac, stats, histVars>>

\* The join of stop() returns because the worker has ended.
CleanupJoined ==
    /\ adapter.pc = "cleanup_joining"
    /\ threads[sim_thread].pc = "dead"
    /\ adapter' = [adapter EXCEPT !.pc = "idle"]
    /\ pins' = GpioCleanup
    /\ UNCHANGED <<snapVars, confVars, config, state, adc, dac, engineVars, stats, histVars>>

\* The join of stop() returns after 2 s although the worker is still inside
\* a tick.
CleanupTimedOut ==
    /\ adapter.pc = "cleanup_joining"
    /\ threads[sim_thread].pc \in TickPhases
    /\ adapter' = [adapter EXCEPT !.pc = "idle"]
    /\ pins' = GpioCleanup
    /\ elapsed' = MaxElapsed
    /\ threads' = [t \in Threads |->
                     IF threads[t].pc \in TickPhases \cup {"sleep"}
                     THEN [threads[t] EXCEPT !.aged = TRUE] ELSE threads[t]]
    /\ UNCHANGED <<snapVars, confVars, config, state, adc, dac, is_running, sim_thread,
                   stats, histVars>>

\* The life cycle calls of the engine in any order, with the PLC driving the
\* input pins that are set up.
NextHw ==
    \/ EngineNext
    \/ InitializeHardware
    \/ CleanupBegin
    \/ CleanupJoined
    \/ CleanupTimedOut
    \/ \E p \in DOMAIN pins : EnvPin(p)

SpecHw == InitHw /\ [][NextHw]_vars

\* The IOPin q is set up on the hardware.
SetUp(q) ==
    CASE q.pin_type \in {"digital_in", "digital_out"} ->
           q.pin_number # NoneVal => q.pin_number \in DOMAIN pins
      [] q.pin_type = "analog_in" ->
           q.i2c_address # NoneVal => q.i2c_address \in DOMAIN adc
      [] q.pin_type = "analog_out" ->
           q.i2c_address # NoneVal => q.i2c_address \in DOMAIN dac

\* C26: while a tick runs, every IOPin of every instrument is set up on the
\* hardware, in whatever order initialize_hardware(), start(), stop() and
\* cleanup() are called.
C26_SetUpBeforeTicks ==
    (\E t \in Threads : threads[t].pc \in TickPhases) =>
        \A q \in IoPinsOf(io_pins) : SetUp(q)

\* ------------------------------------------------ loading a configuration

\* SIMULATOR_CLASSES: the instrument types that have a class.
SIMULATOR_CLASSES == {"level", "valve", "pump", "flow", "reg_valve", "tankbil"}

\* A test that lets the empty string through.
FalsyNone(x) == x = Missing

\* `not inst_id`, `not inst_type`: None and the empty string.
Falsy(x) == x \in {Missing, ""}

\* sim_class(inst_id, params) raises: LevelSimulator._load_config divides by
\* tank_height_mm.
ConstructorRaises(type, params) ==
    type = "level" /\ LoadConfig(type, params).tank_height_mm = 0

\* self.simulators after the entries from n on, as [order, by]: the ids in
\* dictionary order and, for every id, the entry its instrument was built
\* from. An id that is already a key keeps its place.
RECURSIVE CreateFrom(_, _, _)
CreateFrom(entries, n, sims) ==
    IF n > Len(entries) THEN sims
    ELSE LET e == entries[n] IN
         IF Falsy(e.id) \/ Falsy(e.type) THEN CreateFrom(entries, n + 1, sims)
         ELSE IF e.type \notin SIMULATOR_CLASSES THEN CreateFrom(entries, n + 1, sims)
         ELSE IF ConstructorRaises(e.type, e.parameters)
              THEN CreateFrom(entries, n + 1, sims)
         ELSE CreateFrom(entries, n + 1,
                  [order |-> IF e.id \in DOMAIN sims.by THEN sims.order
                             ELSE Append(sims.order, e.id),
                   by |-> Provision(sims.by, [i \in {e.id} |-> n])])

\* ConfigManager.create_simulators: the map is cleared and an instrument is
\* constructed for the entries that pass the tests.
CreateSimulators ==
    /\ loader = "loaded"
    /\ LET r == CreateFrom(config_data, 1, [order |-> << >>, by |-> EmptyDict])
           ty == [i \in DOMAIN r.by |-> config_data[r.by[i]].type]
       IN  /\ simulators' = r.order
           /\ types' = ty
           /\ config' = [i \in DOMAIN r.by |-> config_data[r.by[i]].parameters]
           /\ attrs' = [i \in DOMAIN r.by |->
                           LoadConfig(ty[i], config_data[r.by[i]].parameters)]
           /\ state' = [i \in DOMAIN r.by |-> InitState(ty[i])]
           /\ io_pins' = [i \in DOMAIN r.by |-> EmptyDict]
           /\ linked_instruments' = [i \in DOMAIN r.by |-> EmptyDict]
           /\ link_read' = [i \in DOMAIN r.by |-> NoneVal]
           /\ prev_end' = [i \in DOMAIN r.by |->
                             [k \in (DOMAIN InitState(ty[i])) \cap {"pressure_bar", "flow_lpm"} |->
                                 InitState(ty[i])[k]]]
           /\ upd' = [i \in DOMAIN r.by |-> UpdIdle]
    /\ loader' = "created"
    /\ UNCHANGED <<config_data, gpio_call, snap, halVars, engineVars, stats, adapter, tick, ticks_done>>

\* The io_pins after the entries from n on: simulator.allocate_io for every
\* io of every entry whose id is in the map.
RECURSIVE AllocateFrom(_, _, _)
AllocateFrom(entries, n, io) ==
    IF n > Len(entries) THEN io
    ELSE LET e == entries[n] IN
         IF e.id \notin DOMAIN io THEN AllocateFrom(entries, n + 1, io)
         ELSE AllocateFrom(entries, n + 1, [io EXCEPT ![e.id] = Provision(@, e.io)])

\* ConfigManager.allocate_io
AllocateIo ==
    /\ loader = "created"
    /\ io_pins' = AllocateFrom(config_data, 1, io_pins)
    /\ loader' = "allocated"
    /\ UNCHANGED <<snapVars, simulators, types, attrs, linked_instruments, config_data, gpio_call,
                   config, state, halVars, engineVars, stats, adapter, histVars>>

\* A lookup that finds every target.
LinkResolvesAlways(target_id, sims) == TRUE

\* `if target_id in self.simulators`
LinkResolves(target_id, sims) == target_id \in sims

\* The links of an entry whose target is found.
ResolvedLinks(links, sims) ==
    [k \in {x \in DOMAIN links : LinkResolves(links[x], sims)} |-> links[k]]

\* The linked_instruments after the entries from n on.
RECURSIVE LinkFrom(_, _, _)
LinkFrom(entries, n, li) ==
    IF n > Len(entries) THEN li
    ELSE LET e == entries[n] IN
         IF e.id \notin DOMAIN li THEN LinkFrom(entries, n + 1, li)
         ELSE LinkFrom(entries, n + 1,
                  [li EXCEPT ![e.id] = Provision(@, ResolvedLinks(e.links, DOMAIN li))])

\* ConfigManager.create_links
CreateLinks ==
    /\ loader = "allocated"
    /\ linked_instruments' = LinkFrom(config_data, 1, linked_instruments)
    /\ loader' = "linked"
    /\ UNCHANGED <<snapVars, simulators, types, attrs, io_pins, config_data, gpio_call,
                   config, state, halVars, engineVars, stats, adapter, histVars>>

\* ConfigManager.initialize() after load_config() has read the entries.
NextLoad ==
    \/ CreateSimulators
    \/ AllocateIo
    \/ CreateLinks

\* The state after load_config() has read the given entries: no instrument
\* exists yet.
Loaded(entries) ==
    /\ config_data = entries
    /\ loader = "loaded"
    /\ gpio_call = NoCall
    /\ simulators = << >>
    /\ types = EmptyDict
    /\ config = EmptyDict
    /\ attrs = EmptyDict
    /\ io_pins = EmptyDict
    /\ linked_instruments = EmptyDict
    /\ state = EmptyDict
    /\ pins = EmptyDict
    /\ adc = EmptyDict
    /\ dac = EmptyDict
    /\ is_running = FALSE
    /\ sim_thread = 0
    /\ elapsed = NoneVal
    /\ threads = [t \in 1..SimThreads |->
                    [pc |-> "unborn", idx |-> 0, delta_time |-> 0, aged |-> FALSE]]
    /\ stats = [ticked |-> FALSE, update_rate |-> 0]
    /\ adapter = [pc |-> "idle"]
    /\ tick = [t \in 1..SimThreads |-> [reads |-> {}, updates |-> {}, writes |-> {},
                                         exc |-> "none", after |-> "none"]]
    /\ link_read = EmptyDict
    /\ prev_end = EmptyDict
    /\ ticks_done = FALSE
    /\ upd = EmptyDict
    /\ snap = SnapIdle

\* The lists of at most n entries drawn from the set s.
ListsOf(s, n) == UNION {[1..k -> s] : k \in 0..n}

\* ------------------------------------------------------ allocating the I/O

MaxEntries == 2

\* The `io` sections of a pump: the running output on one of two pins, the
\* speed feedback on one of two converters, the enable input on pin 17.
PumpIos ==
    {[enable_input |-> IOPin("digital_in", 17, NoneVal, NoneVal),
      running_output |-> IOPin("digital_out", p, NoneVal, NoneVal),
      feedback_output |-> IOPin("analog_out", NoneVal, a, NoneVal)] :
        p \in {27, 28}, a \in {96, 97}}

IoEntries ==
    {Entry(id, "pump", EmptyDict, io, EmptyDict) : id \in {"pump1", "pump2"}, io \in PumpIos}

InitIo == \E entries \in ListsOf(IoEntries, MaxEntries) : Loaded(entries)

\* ConfigManager.initialize(), then SimulationEngine(...) and
\* initialize_hardware().
NextIo ==
    \/ NextLoad
    \/ (loader = "linked" /\ InitializeHardware)

SpecIo == InitIo /\ [][NextIo]_vars

\* The logical outputs: the IOPins of an output type, each with its owner.
LogicalOutputs ==
    {x \in UNION {{<<i, n>> : n \in DOMAIN io_pins[i]} : i \in DOMAIN io_pins} :
        io_pins[x[1]][x[2]].pin_type \in {"digital_out", "analog_out"}}

\* The pin number of a digital output, the address of a converter.
Location(x) ==
    LET q == io_pins[x[1]][x[2]]
    IN  IF q.pin_type = "digital_out" THEN <<"digital_out", q.pin_number>>
        ELSE <<"analog_out", q.i2c_address>>

\* C27: once the configuration is loaded and the hardware initialised, no two
\* logical outputs have the same kind and location.
C27_OutputsDistinct ==
    (/\ loader = "linked"
     /\ \A q \in IoPinsOf(io_pins) : SetUp(q)) =>
        \A x, y \in LogicalOutputs : x # y => Location(x) # Location(y)

\* ---------------------------------------------------- creating the links

\* Entries of a regulating valve, a pump and an instrument of a type that has
\* no class, each without a link or with a link `reg_valve` to one of them or
\* to an id that no entry has.
LinkEntries ==
    {Entry(it[1], it[2], EmptyDict, EmptyDict, links) :
        it \in {<<"rv1", "reg_valve">>, <<"pump1", "pump">>, <<"rv2", "bogus">>},
        links \in {EmptyDict} \cup
                  {[k \in {"reg_valve"} |-> target] : target \in {"rv1", "rv2", "ghost"}}}

InitLinks == \E entries \in ListsOf(LinkEntries, MaxEntries) : Loaded(entries)

SpecLinks == InitLinks /\ [][NextLoad]_vars

\* The entries of instrument i that declare the link k with a target that is
\* in the simulators map.
Declaring(i, k) ==
    {n \in 1..Len(config_data) :
        /\ config_data[n].id = i
        /\ k \in DOMAIN config_data[n].links
        /\ config_data[n].links[k] \in Ids}

\* The link names the entries declare.
LinkNames == UNION {DOMAIN config_data[n].links : n \in 1..Len(config_data)}

\* An entry of an instrument that exists declares a link to an id that is
\* not in the simulators map.
Dangling(n) ==
    /\ config_data[n].id \in Ids
    /\ \E k \in DOMAIN config_data[n].links : config_data[n].links[k] \notin Ids

\* C28: after create_links every link of every instrument leads to an
\* instrument of the simulators map; an instrument has the link k exactly
\* when one of its entries declares k with a target in the map (then with the
\* target declared last), so a link to an absent target is dropped and takes
\* nothing else with it; the instruments are those of the entries with a
\* known type.
C28_LinksResolve ==
    loader = "linked" =>
        /\ \A i \in Ids : \A k \in DOMAIN linked_instruments[i] :
               linked_instruments[i][k] \in Ids
        /\ \A i \in Ids : \A k \in LinkNames :
               /\ k \in DOMAIN linked_instruments[i] <=> Declaring(i, k) # {}
               /\ Declaring(i, k) # {} =>
                     LET last == CHOOSE n \in Declaring(i, k) :
                                     \A m \in Declaring(i, k) : m <= n
                     IN  linked_instruments[i][k] = config_data[last].links[k]
        /\ Ids = {config_data[n].id :
                    n \in {m \in 1..Len(config_data) :
                             config_data[m].type \in SIMULATOR_CLASSES}}

\* A link to an absent target has been dropped while the link of another
\* instrument has been created.
C28_Witness ==
    /\ loader = "linked"
    /\ \E n \in 1..Len(config_data) :
          /\ Dangling(n)
          /\ linked_instruments[config_data[n].id] = EmptyDict
          /\ \E j \in Ids : j # config_data[n].id /\ linked_instruments[j] # EmptyDict

\* ----------------------------------------------- creating the instruments

\* Entries whose id is absent, empty or one of two names, whose type is
\* absent, empty, unknown or one of two classes, and whose parameters are
\* absent or give a tank no height.
CreateEntries ==
    {Entry(id, type, parameters, EmptyDict, EmptyDict) :
        id \in {Missing, "", "tank1", "valve1"},
        type \in {Missing, "", "bogus", "level", "valve"},
        parameters \in {EmptyDict, [k \in {"tank_height_mm"} |-> 0]}}

InitCreate == \E entries \in ListsOf(CreateEntries, MaxEntries) : Loaded(entries)

SpecCreate == InitCreate /\ [][NextLoad]_vars

\* The entry has a non-empty id and the type of a class.
Wellformed(n) ==
    /\ config_data[n].id \notin {Missing, ""}
    /\ config_data[n].type \in {"level", "valve", "pump", "flow", "reg_valve", "tankbil"}

\* The entry describes a tank without height.
NoHeight(n) ==
    /\ config_data[n].type = "level"
    /\ "tank_height_mm" \in DOMAIN config_data[n].parameters
    /\ config_data[n].parameters.tank_height_mm = 0

\* The entries an instrument is kept from: wellformed and constructible.
Constructible == {n \in 1..Len(config_data) : Wellformed(n) /\ ~NoHeight(n)}

\* C29 as stated: the instruments are those of the entries with a non-empty
\* id and the type of a class.
C29_ExactlyValid ==
    loader = "created" =>
        Ids = {config_data[n].id : n \in {m \in 1..Len(config_data) : Wellformed(m)}}

\* C29: create_simulators keeps an instrument for the entries that have a
\* non-empty id and the type of a class and whose constructor does not
\* raise: one instrument per id, of the type and with the parameters of the
\* last such entry with that id, in the order in which the ids first occur.
\* Every other entry is skipped and takes no instrument with it.
C29_BuiltEntries ==
    loader = "created" =>
        /\ Ids = {config_data[n].id : n \in Constructible}
        /\ Len(simulators) = Cardinality(Ids)
        /\ \A i \in Ids :
              LET of == {n \in Constructible : config_data[n].id = i}
                  last == CHOOSE n \in of : \A m \in of : m <= n
              IN  /\ types[i] = config_data[last].type
                  /\ config[i] = config_data[last].parameters
                  /\ state[i] = InitState(types[i])
        /\ \A a, b \in 1..Len(simulators) :
              a < b => \E n \in Constructible :
                          /\ config_data[n].id = simulators[a]
                          /\ \A m \in Constructible :
                                config_data[m].id = simulators[b] => n < m

\* An entry without id, without type or of an unknown type has been skipped
\* and an instrument has been built from an entry that comes after it.
C29_Witness ==
    /\ loader = "created"
    /\ \E n, m \in 1..Len(config_data) :
          /\ n < m
          /\ ~Wellformed(n)
          /\ m \in Constructible
          /\ config_data[m].id \in Ids
          /\ types[config_data[m].id] = config_data[m].type

\* ------------------------------------------------ the GPIO driver on its own

\* The pins a client of the driver uses.
ClientPins == {17, 27}

\* A GPIODriver as constructed, used by a client as test_hardware does.
InitGpio ==
    /\ Constructed(CfgIdle, SimThreads)
    /\ pins = EmptyDict
    /\ adc = EmptyDict
    /\ dac = EmptyDict

ClientCall(op, p, value) ==
    /\ gpio_call' = [op |-> op, pin |-> p, raised |-> FALSE, value |-> value,
                     released |-> IF op = "setup" THEN gpio_call.released \ {p}
                                  ELSE IF op = "cleanup" THEN gpio_call.released \cup DOMAIN pins
                                  ELSE gpio_call.released]
    /\ UNCHANGED <<snapVars, simulators, types, attrs, io_pins, linked_instruments,
                   config_data, loader, config, state, adc, dac, engineVars, stats,
                   adapter, histVars>>

\* GPIODriver.setup_output(pin, initial_value): MockGPIO.setup, then output.
SetupOutput(p, initial_value) ==
    /\ pins' = GpioWrite(Provision(pins, [q \in {p} |-> [mode |-> "output", value |-> FALSE]]),
                         p, initial_value)
    /\ ClientCall("setup", p, initial_value)

\* GPIODriver.setup_input(pin)
SetupInput(p) ==
    /\ pins' = Provision(pins, [q \in {p} |-> [mode |-> "input", value |-> FALSE]])
    /\ ClientCall("setup", p, FALSE)

\* GPIODriver.write(pin, value): MockGPIO.output raises nothing.
DriverWrite(p, v) ==
    /\ pins' = GpioWrite(pins, p, v)
    /\ ClientCall("write", p, v)

\* GPIODriver.read(pin): MockGPIO.input raises nothing.
DriverRead(p) ==
    /\ pins' = pins
    /\ ClientCall("read", p, GpioRead(pins, p))

\* GPIODriver.cleanup()
DriverCleanup ==
    /\ pins' = GpioCleanup
    /\ ClientCall("cleanup", 0, FALSE)

NextGpio ==
    \/ \E p \in ClientPins, v \in BOOLEAN : SetupOutput(p, v)
    \/ \E p \in ClientPins : SetupInput(p)
    \/ \E p \in ClientPins, v \in BOOLEAN : DriverWrite(p, v)
    \/ \E p \in ClientPins : DriverRead(p)
    \/ DriverCleanup

SpecGpio == InitGpio /\ [][NextGpio]_vars

\* C30: a read or a write on a pin that cleanup() released and that has not
\* been set up again fails.
C30_FailsAfterCleanup ==
    (/\ gpio_call.op \in {"read", "write"}
     /\ gpio_call.pin \in gpio_call.released) => gpio_call.raised

\* ------------------------------------------------- the instrument locks

\* A pump and a regulating valve that are linked to each other.
CfgCycle ==
    [CfgValvePump(<<"rv1", "pump1">>) EXCEPT !.links.rv1 = [pump |-> "pump1"]]

InitLocks == InitOf(CfgCycle, SimThreads)

\* The adapter thread, as a holder of locks, comes after the worker threads.
AdapterThread == MaxThreads + 1
LockHolders == Threads \cup {AdapterThread}

\* The instruments whose update_lock the thread holds.
Held(th) == {i \in Ids : upd[i].by = th}

\* `with self.update_lock` in the method the worker calls in the given phase:
\* update of every class, read_inputs of every class but the level,
\* write_outputs of every class but the valve.
TakesLock(type, pc) ==
    CASE pc = "update" -> TRUE
      [] pc = "read" -> type # "level"
      [] pc = "write" -> type # "valve"
      [] OTHER -> FALSE

\* A get_linked_value that takes the lock of the linked instrument.
LinkLocksTarget(i) ==
    {linked_instruments[i][k] : k \in DOMAIN linked_instruments[i] \cap {LinkName(types[i])}}

\* The locks get_linked_value takes: it reads linked.state without one.
LinkLocks(i) == {}

\* The call the worker is in.
CallOf(t) == [pc |-> threads[t].pc, idx |-> threads[t].idx]

\* The locks the worker's call takes before its body runs.
Required(t) ==
    IF threads[t].pc \notin {"read", "update", "write"} THEN {}
    ELSE LET i == simulators[threads[t].idx]
         IN  (IF TakesLock(types[i], threads[t].pc) THEN {i} ELSE {})
             \cup (IF threads[t].pc = "update" THEN LinkLocks(i) ELSE {})

\* Every lock the worker holds was taken in the call it is in.
InCall(t) == \A i \in Held(t) : upd[i].call = CallOf(t)

\* The worker enters a `with self.update_lock` of its call: its own
\* instrument's first.
Acquire(t) ==
    /\ threads[t].pc \in {"read", "update", "write"}
    /\ InCall(t)
    /\ \E i \in Required(t) \ Held(t) :
          /\ LET own == simulators[threads[t].idx]
             IN  i = own \/ own \in Held(t) \/ own \notin Required(t)
          /\ upd[i].by = 0
          /\ upd' = [upd EXCEPT ![i] = [by |-> t, call |-> CallOf(t)]]
    /\ UNCHANGED <<confVars, config, state, halVars, engineVars, stats, adapter,
                   histVars, snap>>

\* The body of the call runs with its locks held.
LockedCall(t) ==
    /\ InCall(t)
    /\ Held(t) = Required(t)
    /\ \/ ReadStep(t)
       \/ UpdateStep(t)
       \/ WriteStep(t)

\* The worker leaves the `with` block of the call it has finished.
Release(t) ==
    /\ \E i \in Held(t) :
          /\ upd[i].call # CallOf(t)
          /\ upd' = [upd EXCEPT ![i] = UpdIdle]
    /\ UNCHANGED <<confVars, config, state, halVars, engineVars, stats, adapter,
                   histVars, snap>>

WorkerStepLocked(t) ==
    \/ Acquire(t)
    \/ LockedCall(t)
    \/ Release(t)
    \/ /\ Held(t) = {}
       /\ \/ BeginTick(t)
          \/ ExitLoop(t)
          \/ StatsStep(t)
          \/ Wake(t)

\* GET /api/instruments/{id}/state: the adapter thread calls get_state.
GetStateCall(i) ==
    /\ adapter.pc = "idle"
    /\ adapter' = [pc |-> "get_state", id |-> i]
    /\ UNCHANGED <<snapVars, confVars, config, state, halVars, engineVars, stats, histVars>>

\* BaseSimulator.get_state enters `with self.update_lock`.
GetStateAcquire ==
    /\ adapter.pc = "get_state"
    /\ upd[adapter.id].by = 0
    /\ upd' = [upd EXCEPT ![adapter.id] = [by |-> AdapterThread, call |-> "get_state"]]
    /\ adapter' = [adapter EXCEPT !.pc = "in_get_state"]
    /\ UNCHANGED <<confVars, config, state, halVars, engineVars, stats, histVars, snap>>

\* get_state returns its dictionary and releases the lock.
GetStateReturn ==
    /\ adapter.pc = "in_get_state"
    /\ upd' = [upd EXCEPT ![adapter.id] = UpdIdle]
    /\ adapter' = [pc |-> "idle"]
    /\ UNCHANGED <<confVars, config, state, halVars, engineVars, stats, histVars, snap>>

NextLocks ==
    \/ \E t \in Threads : WorkerStepLocked(t)
    \/ Advance
    \/ Start
    \/ \E i \in Ids : GetStateCall(i)
    \/ GetStateAcquire
    \/ GetStateReturn
    \/ \E p \in DOMAIN pins : EnvPin(p)

SpecLocks == InitLocks /\ [][NextLocks]_vars

\* The locks a thread is waiting for.
Wants(th) ==
    IF th = AdapterThread
    THEN IF adapter.pc = "get_state" THEN {adapter.id} ELSE {}
    ELSE IF InCall(th) THEN Required(th) \ Held(th) ELSE {}

\* C31: no thread holds more than one instrument lock, and no set of
\* threads waits in a circle, each for a lock that another of them holds.
C31_OneLockNoDeadlock ==
    /\ \A th \in LockHolders : Cardinality(Held(th)) <= 1
    /\ \A th \in LockHolders : Held(th) # {} => Wants(th) = {}
    /\ \A S \in SUBSET LockHolders :
          S # {} => \E th \in S : \A i \in Wants(th) : upd[i].by \notin S

\* The worker is inside the pump's update, about to read the regulating
\* valve through its link, while the adapter thread holds the valve's lock in
\* get_state; another request waits for nothing.
C31_Witness ==
    /\ \E t \in Threads :
          /\ threads[t].pc = "update"
          /\ simulators[threads[t].idx] = "pump1"
          /\ Held(t) = {"pump1"}
    /\ Held(AdapterThread) = {"rv1"}
    /\ linked_instruments["pump1"]["reg_valve"] = "rv1"

\* --------------------------------------------- the valve's priority table

\* A valve with all three command inputs.
CfgValveWith(hold, spring, open_speed, close_speed) ==
    [simulators |-> <<"valve1">>,
     types |-> [valve1 |-> "valve"],
     parameters |->
        [valve1 |-> [open_speed_sec |-> open_speed, close_speed_sec |-> close_speed,
                     has_hold_solenoid |-> hold, has_return_spring |-> spring]],
     io |->
        [valve1 |-> [open_input |-> IOPin("digital_in", 22, NoneVal, NoneVal),
                     close_input |-> IOPin("digital_in", 23, NoneVal, NoneVal),
                     hold_input |-> IOPin("digital_in", 24, NoneVal, NoneVal)]],
     links |-> [valve1 |-> EmptyDict]]

\* With or without hold solenoid and return spring; one travel takes 1.01
\* nominal periods (99 % per period), the other 2.5 periods (40 % per period).
InitTable ==
    \E hold \in BOOLEAN, spring \in BOOLEAN, c \in {<<101, 250>>, <<250, 101>>} :
        InitOf(CfgValveWith(hold, spring, c[1], c[2]), SimThreads)

NextTable ==
    \/ RunNext
    \/ \E p \in DOMAIN pins : EnvPin(p)

SpecTable == InitTable /\ [][NextTable]_vars

\* The first matching row of the table: <<position_percent, status>>.
TableRow(st, at, dt) ==
    LET pos == st.position_percent
        down == Max(0, pos - (10000 * dt) \div at.close_speed_sec)
    IN  IF at.has_hold_solenoid /\ st.hold_cmd THEN <<pos, "hold">>
        ELSE IF st.open_cmd /\ ~st.close_cmd /\ pos < 10000
        THEN <<Min(10000, pos + (10000 * dt) \div at.open_speed_sec), "opening">>
        ELSE IF st.open_cmd /\ ~st.close_cmd /\ pos >= 10000 THEN <<pos, "open">>
        ELSE IF st.close_cmd /\ ~st.open_cmd /\ pos > 0 THEN <<down, "closing">>
        ELSE IF st.close_cmd /\ ~st.open_cmd /\ pos <= 0 THEN <<pos, "closed">>
        ELSE IF at.has_return_spring /\ ~st.open_cmd /\ pos > 0 THEN <<down, "closing">>
        ELSE <<pos, IF pos <= 100 THEN "closed"
                    ELSE IF pos >= 9900 THEN "open" ELSE "hold">>

\* C32: every update of a valve leaves the position and the status of the
\* first matching row of the priority table, and changes nothing else.
C32_PriorityTable ==
    [][\A t \in Threads :
          (Called(t, "update") /\ types[simulators[threads[t].idx]] = "valve") =>
              LET i == simulators[threads[t].idx]
                  row == TableRow(state[i], attrs[i], threads[t].delta_time)
              IN  /\ state'[i].position_percent = row[1]
                  /\ state'[i].status = row[2]
                  /\ state'[i].open_cmd = state[i].open_cmd
                  /\ state'[i].close_cmd = state[i].close_cmd
                  /\ state'[i].hold_cmd = state[i].hold_cmd]_vars

\* The last row at work near the end of the travel: no command, the valve
\* stands at 99 % and reports open.
C32_Witness ==
    /\ state["valve1"].position_percent = 9900
    /\ state["valve1"].status = "open"
    /\ ~state["valve1"].open_cmd
    /\ ~state["valve1"].close_cmd
    /\ ~attrs["valve1"].has_return_spring

\* The valve's update runs under an open command alone, a close command
\* alone.
OpenHeld(st) == st.open_cmd /\ ~st.close_cmd /\ ~st.hold_cmd
CloseHeld(st) == st.close_cmd /\ ~st.open_cmd /\ ~st.hold_cmd

\* C33: every update of a valve under an open command alone adds
\* 100 / open_speed_sec per second to the position, up to 100 and never down,
\* so that the position is 100 once the delta times add up to open_speed_sec;
\* the update that finds the position at 100 sets the status to open and
\* leaves both. The same with the close command, down to 0 and closed.
C33_TravelCompletes ==
    [][\A t \in Threads :
          (Called(t, "update") /\ types[simulators[threads[t].idx]] = "valve") =>
              LET i == simulators[threads[t].idx]
                  pos == state[i].position_percent
                  dt == threads[t].delta_time
              IN  /\ OpenHeld(state[i]) =>
                        /\ state'[i].position_percent >= pos
                        /\ state'[i].position_percent =
                              Min(10000, pos + (10000 * dt) \div attrs[i].open_speed_sec)
                        /\ state'[i].status = IF pos = 10000 THEN "open" ELSE "opening"
                  /\ CloseHeld(state[i]) =>
                        /\ state'[i].position_percent <= pos
                        /\ state'[i].position_percent =
                              Max(0, pos - (10000 * dt) \div attrs[i].close_speed_sec)
                        /\ state'[i].status = IF pos = 0 THEN "closed" ELSE "closing"]_vars

\* The valve has travelled to 100 % in 2.5 periods under the open command and
\* the next tick has reported it open.
C33_Witness ==
    /\ attrs["valve1"].open_speed_sec = 250
    /\ OpenHeld(state["valve1"])
    /\ state["valve1"].position_percent = 10000
    /\ state["valve1"].status = "open"

\* C34: the first tick executed after start() runs with the nominal period
\* as its delta time.
C34_FirstTickNominal ==
    \A t \in Threads :
        (~ticks_done /\ threads[t].pc \in TickPhases) =>
            threads[t].delta_time = UpdateIntervalMs

----------------------------------------------------------------------------
\* The pump's ramp and its steady state against a back-pressure.

\* A pump with the default pressures and flow (set 8 bar, maximum 10 bar,
\* 100 L/min) that ramps in 2.5 nominal periods, in the given control mode.
\* Its reg_valve link names an instrument whose pressure_bar is 4 bar once it
\* runs: a second pump set to 4 bar. The PLC enables either pump and drives
\* the speed input.
CfgBackPressure(control_type) ==
    [simulators |-> <<"pump2", "pump1">>,
     types |-> [pump2 |-> "pump", pump1 |-> "pump"],
     parameters |->
        [pump2 |-> [ramp_time_sec |-> 100, set_pressure_bar |-> 4000],
         pump1 |-> [control_type |-> control_type, ramp_time_sec |-> 250,
                    set_pressure_bar |-> 8000, max_pressure_bar |-> 10000,
                    max_flow_lpm |-> 10000]],
     io |->
        [pump2 |-> [enable_input |-> IOPin("digital_in", 27, NoneVal, NoneVal)],
         pump1 |-> [enable_input |-> IOPin("digital_in", 17, NoneVal, NoneVal),
                    speed_input |-> IOPin("analog_in", NoneVal, 72, 1)]],
     links |-> [pump2 |-> EmptyDict, pump1 |-> [reg_valve |-> "pump2"]]]

InitRamp == \E c \in {"digital", "analog"} : InitOf(CfgBackPressure(c), SimThreads)

\* The voltages the PLC puts on the speed input.
SpeedVolts == {0, 5000, 10000}

NextRamp ==
    \/ RunNext
    \/ \E p \in DOMAIN pins : EnvPin(p)
    \/ \E a \in AdcInputs, v \in SpeedVolts : EnvAdc(a, v)

SpecRamp == InitRamp /\ [][NextRamp]_vars

\* The speed the pump is commanded to: 0 when not enabled, 100 % under
\* digital control, the speed command otherwise.
TargetSpeed(st, at) ==
    IF ~st.enable_cmd THEN 0
    ELSE IF at.control_type = "digital" THEN 10000 ELSE st.speed_cmd_percent

Distance(a, b) == IF a >= b THEN a - b ELSE b - a

\* C35: every update of a pump moves current_speed_percent toward the target
\* by at most (100 / ramp_time_sec) * delta time and never past it; what is
\* left of the way to the target shrinks by that rate down to 0, so that under
\* a constant command the speed reaches the target and stays there. The
\* update that leaves an enabled pump of 8 bar set pressure, 10 bar maximum
\* and 100 L/min at full speed against a back-pressure of 4 bar leaves
\* pressure_bar 6, flow_lpm 20, running true and fault false.
C35_RampAndSteadyState ==
    [][\A t \in Threads :
          (Called(t, "update") /\ types[simulators[threads[t].idx]] = "pump") =>
              LET i == simulators[threads[t].idx]
                  cur == state[i].current_speed_percent
                  target == TargetSpeed(state[i], attrs[i])
                  rate == (10000 * threads[t].delta_time) \div attrs[i].ramp_time_sec
                  new == state'[i]
              IN  /\ Distance(new.current_speed_percent, cur) <= rate
                  /\ cur <= target => (cur <= new.current_speed_percent
                                       /\ new.current_speed_percent <= target)
                  /\ cur >= target => (target <= new.current_speed_percent
                                       /\ new.current_speed_percent <= cur)
                  /\ Distance(target, new.current_speed_percent) =
                        Max(0, Distance(target, cur) - rate)
                  /\ (/\ state[i].enable_cmd
                      /\ new.current_speed_percent = 10000
                      /\ attrs[i].set_pressure_bar = 8000
                      /\ attrs[i].max_pressure_bar = 10000
                      /\ attrs[i].max_flow_lpm = 10000
                      /\ LinkedValue(state, i) = 4000) =>
                        /\ new.pressure_bar = 6000
                        /\ new.flow_lpm = 2000
                        /\ new.running
                        /\ ~new.fault]_vars

\* The enabled pump has ramped to full speed in three ticks against the
\* back-pressure of 4 bar and delivers 20 L/min at 6 bar.
C35_Witness ==
    /\ state["pump1"].enable_cmd
    /\ state["pump1"].current_speed_percent = 10000
    /\ state["pump2"].pressure_bar = 4000
    /\ state["pump1"].pressure_bar = 6000
    /\ state["pump1"].flow_lpm = 2000

----------------------------------------------------------------------------
\* The regulating valve's limit switch and pressure drop.

\* C36: in every state of a regulating valve, the initial state and the states
\* under hold_cmd included, at_closed_limit is (position_percent < 5) and
\* pressure_bar is 2 * (1 - position_percent / 100) for a position above 0
\* and 10 at position 0.
C36_LimitAndPressure ==
    \A i \in Ids :
        (types[i] = "reg_valve"
         /\ Has(state[i], {"position_percent", "at_closed_limit", "pressure_bar"})) =>
            /\ state[i].at_closed_limit = (state[i].position_percent < 500)
            /\ state[i].pressure_bar =
                  IF state[i].position_percent > 0
                  THEN 2000 - state[i].position_percent \div 5 ELSE 10000

----------------------------------------------------------------------------
\* Ticks over hardware that was not set up.

\* The inputs of instrument i that the hardware does not have: the digital
\* ones whose pin is not set up, the analog ones whose address has no driver.
\* The outputs likewise.
MissingInputs(i) ==
    LET specs == InputSpecs(types[i], attrs[i])
    IN  {n \in 1..Len(specs) :
            /\ specs[n][1] \in DOMAIN io_pins[i]
            /\ IF specs[n][2] = "digital"
               THEN /\ io_pins[i][specs[n][1]].pin_number # NoneVal
                    /\ io_pins[i][specs[n][1]].pin_number \notin DOMAIN pins
               ELSE io_pins[i][specs[n][1]].i2c_address \notin DOMAIN adc}
DrivenOutputs(i, kind) ==
    LET specs == OutputSpecs(types[i])
    IN  {n \in 1..Len(specs) :
            /\ specs[n][1] \in DOMAIN io_pins[i]
            /\ specs[n][2] = kind
            /\ IF kind = "digital"
               THEN io_pins[i][specs[n][1]].pin_number \in DOMAIN pins
               ELSE io_pins[i][specs[n][1]].i2c_address \in DOMAIN dac}

\* The engine started before or after initialize_hardware(), and never
\* stopped; the PLC drives the inputs that exist.
NextBare ==
    \/ RunNext
    \/ InitializeHardware
    \/ \E p \in DOMAIN pins : EnvPin(p)
    \/ \E a \in {b \in AdcInputs : b[1] \in DOMAIN adc}, v \in AdcLevels : EnvAdc(a, v)

SpecBare == InitHw /\ [][NextBare]_vars

\* C37: read_inputs and write_outputs of an instrument whose digital pin is
\* not set up, or whose analog address has no driver, raise nothing: the
\* input reads as false or 0, and a write that has no pin or driver to reach
\* leaves the pins, and the converters, as they are.
C37_MissingHardwareIsSilent ==
    [][\A t \in Threads :
          LET i == simulators[threads[t].idx]
              ins == InputSpecs(types[i], attrs[i])
          IN  /\ (Called(t, "read") /\ MissingInputs(i) # {}) =>
                    /\ tick'[t].exc # i
                    /\ \A n \in MissingInputs(i) :
                          state'[i][ins[n][3]] = (IF ins[n][2] = "digital" THEN FALSE ELSE 0)
              /\ (Called(t, "write") /\ DrivenOutputs(i, "digital") = {}) =>
                    (tick'[t].exc # i /\ pins' = pins)
              /\ (Called(t, "write") /\ DrivenOutputs(i, "analog") = {}) =>
                    (tick'[t].exc # i /\ dac' = dac)]_vars

\* A tick has read and written the pump before initialize_hardware() was
\* ever called: no pin is set up and no driver exists.
C37_Witness ==
    /\ pins = EmptyDict
    /\ adc = EmptyDict
    /\ dac = EmptyDict
    /\ \E t \in Threads : {"rv1", "pump1"} \subseteq (tick[t].reads \cap tick[t].writes)

----------------------------------------------------------------------------
\* cleanup() in every state of the life cycle.

\* A pump with an input and an output pin.
CfgOnePump ==
    [simulators |-> <<"pump1">>,
     types |-> [pump1 |-> "pump"],
     parameters |-> [pump1 |-> [ramp_time_sec |-> 100]],
     io |-> [pump1 |-> [enable_input |-> IOPin("digital_in", 17, NoneVal, NoneVal),
                        running_output |-> IOPin("digital_out", 27, NoneVal, NoneVal)]],
     links |-> [pump1 |-> EmptyDict]]

InitCleanup ==
    /\ Constructed(CfgOnePump, SimThreads)
    /\ pins = EmptyDict
    /\ adc = EmptyDict
    /\ dac = EmptyDict

\* initialize_hardware(), start(), stop() and cleanup() in any order, with the
\* PLC enabling the pump.
NextCleanup ==
    \/ EngineNext
    \/ InitializeHardware
    \/ CleanupBegin
    \/ CleanupJoined
    \/ CleanupTimedOut
    \/ \E p \in DOMAIN pins : EnvPin(p)

SpecCleanup == InitCleanup /\ [][NextCleanup]_vars

\* cleanup() returns on this step: at once when the engine was not running,
\* else when the join of stop() returns.
CleanupReturns ==
    \/ CleanupBegin /\ adapter'.pc = "idle"
    \/ CleanupJoined
    \/ CleanupTimedOut

\* C38: cleanup() can be called whenever the adapter is not inside another
\* call (engine never started, running, stopped, cleaned up before, or stopped
\* with the worker still inside a tick) and raises nothing; while it waits in
\* the join the worker or its sleep goes on, toward the end of the loop, or
\* the join returns; when it returns the engine is not running and no pin is
\* set up.
C38_CleanupAlwaysSafe ==
    /\ [](adapter.pc = "idle" => ENABLED CleanupBegin)
    /\ [](adapter.pc = "cleanup_joining" =>
            /\ ~is_running
            /\ \/ ENABLED (CleanupJoined \/ CleanupTimedOut)
               \/ ENABLED WorkerStep(sim_thread)
               \/ ENABLED Advance)
    /\ [][CleanupReturns => (~is_running' /\ pins' = EmptyDict)]_vars

\* cleanup() has returned after the join timed out: the worker is still inside
\* its tick, the engine is not running and the pins that were set up (the
\* pump has read its enable input as true) are gone.
C38_Witness ==
    /\ adapter.pc = "idle"
    /\ ~is_running
    /\ pins = EmptyDict
    /\ state["pump1"].enable_cmd
    /\ \E t \in Threads : threads[t].pc \in TickPhases /\ threads[t].aged

----------------------------------------------------------------------------
\* The flow the meter reports.

\* C39: every update of a flow meter, started or not, leaves in flow_lpm the
\* flow_lpm of the linked pump as that update reads it, 0 without a pump; a
\* level that reads the meter then stops filling when the pump's flow is 0.
C39_MeterFollowsPump ==
    [][\A t \in Threads :
          (Called(t, "update") /\ types[simulators[threads[t].idx]] = "flow") =>
              LET i == simulators[threads[t].idx]
              IN  state'[i].flow_lpm = OrZero(LinkedValue(state, i))]_vars

----------------------------------------------------------------------------
\* The flow meter's pulse bookkeeping.

\* The engine once started over the pump and the flow meter with its noise
\* input, ten pulses per nominal period at full flow; the PLC sets the inputs
\* between the ticks.
EnvPinBetweenTicks(p) ==
    /\ \A t \in Threads : threads[t].pc \notin TickPhases
    /\ EnvPin(p)

NextNoise ==
    \/ RunNext
    \/ \E p \in DOMAIN pins : EnvPinBetweenTicks(p)

SpecNoise == InitFlow /\ [][NextNoise]_vars

\* C40: for every flow meter, the pulses counted and the pulses still in the
\* accumulator add up to pulses_per_liter times the total volume, in every
\* state from construction on, across resets and on ticks whose edge the
\* noise drops (in 1/1000 pulse: the volume is in millilitres).
C40_PulsesConserved ==
    \A i \in Ids :
        (types[i] = "flow"
         /\ Has(state[i], {"pulse_count", "pulse_accumulator", "total_volume_liters"})) =>
            1000 * state[i].pulse_count + state[i].pulse_accumulator =
                attrs[i].pulses_per_liter * state[i].total_volume_liters

\* The first pulse since the reset has been counted with the noise on and its
\* edge was dropped: the outputs are not in phase 1 of the Gray cycle, and
\* nine more pulses wait in the accumulator.
C40_Witness ==
    /\ state["flow1"].noise_cmd
    /\ state["flow1"].pulse_count = 1
    /\ ~state["flow1"].pulse_a
    /\ state["flow1"].pulse_accumulator = 9000
    /\ state["flow1"].total_volume_liters = 100

=============================================================================
